---- MODULE Spec2Model ----
(***************************************************************************)
(* Verification model of the GlobalSearch search core:                     *)
(*   - SearchManager (src/core/search/manager.py): TTL result cache, the   *)
(*     exact / fuzzy / semantic adapters, merge, sort and trim;            *)
(*   - ExactSearchStrategy (src/core/search/strategies/exact.py): the      *)
(*     tokenizer, the shunting-yard parser and the query compiler.         *)
(*                                                                         *)
(* Numbers.  Python floats are modelled by scaled integers:                *)
(*   similarities, thresholds and rank weights are in hundredths,          *)
(*   relevance scores are in ten-thousandths (a product of two hundredths),*)
(*   so 0.0 <= relevance_score <= 1.0 reads 0 <= s <= 10000.               *)
(* Strings.  Query strings handed to the parser are sequences of           *)
(*   one-character strings, because the tokenizer works on characters.     *)
(***************************************************************************)
EXTENDS Integers, Sequences, FiniteSets, TLC

VARIABLES
    cfg,        \* SearchManager construction: settings, weights, ttl, injected stubs
    cache,      \* SearchManager._cache : key -> [ts, results]
    now,        \* the wall clock read by time.time()
    nSearch,    \* number of search calls made so far
    last,       \* observation of the most recent search call
    expr,       \* ExactSearchStrategy: the expression handed to build_query
    pc,         \* ExactSearchStrategy: "idle" | "ready" | "done"
    built,      \* ExactSearchStrategy: outcome of build_query
    req,        \* the call about to be made on a fresh manager (SpecCall)
    lru,        \* an LRUCache / EmbeddingCache: [kind, cap, data], data oldest first
    hist,       \* the get / put calls made on lru so far, with what they returned
    thr,        \* threads working on one EmbeddingCache: thread -> frame
    sem,        \* SemanticSearchStrategy: construction, calls made, last observation
    sug,        \* SearchManager.suggest: the call and what it returned
    call,       \* a search call in progress, statement by statement
    bus         \* an EventBus with the threads working on it

vars == <<cfg, cache, now, nSearch, last, expr, pc, built, req, lru, hist, thr, sem, sug,
          call, bus>>

searchVars == <<cfg, cache, now, nSearch, last, req>>
parseVars  == <<expr, pc, built>>
cacheVars  == <<lru, hist, thr>>
semVars    == <<sem>>
sugVars    == <<sug>>
callVars   == <<call>>
busVars    == <<bus>>

-----------------------------------------------------------------------------
(* Bounds of the model *)

MaxSearches == 2      \* search calls per behaviour
MaxTime     == 3      \* the clock runs from 0 to MaxTime

None == "<None>"

-----------------------------------------------------------------------------
(* Generic sequence helpers *)

Min(a, b) == IF a <= b THEN a ELSE b
Max(a, b) == IF a >= b THEN a ELSE b

\* Python slice s[:n] (n may be negative: all but the last -n elements)
SliceTo(s, n) ==
    IF n >= 0 THEN SubSeq(s, 1, Min(n, Len(s)))
              ELSE SubSeq(s, 1, Max(0, Len(s) + n))


-----------------------------------------------------------------------------
(* Data model: src/core/models/search.py *)

EXACT    == "EXACT"
FUZZY    == "FUZZY"
SEMANTIC == "SEMANTIC"

ScoreOne == 10000     \* relevance_score 1.0 in ten-thousandths

\* Outcome of a call that may raise: ok with a value, or an exception name
Ok(v)       == [ok |-> TRUE,  exc |-> None, val |-> v]
Raised(e)   == [ok |-> FALSE, exc |-> e,    val |-> <<>>]

\* mutant of SearchResult: __post_init__ without the score range check
SearchResultUnchecked(doc, title, page, snippet, score, mtype) ==
    IF page < 0 THEN Raised("ValueError")
    ELSE Ok([document_id      |-> doc,
             document_title   |-> title,
             page_number      |-> page,
             snippet          |-> snippet,
             relevance_score  |-> score,
             match_type       |-> mtype,
             highlighted_text |-> snippet])

\* SearchResult(...) with __post_init__: raises ValueError for page_number < 0
\* or a relevance_score outside [0.0, 1.0]
SearchResult(doc, title, page, snippet, score, mtype) ==
    IF page < 0 THEN Raised("ValueError")
    ELSE IF ~(0 <= score /\ score <= ScoreOne) THEN Raised("ValueError")
    ELSE Ok([document_id      |-> doc,
             document_title   |-> title,
             page_number      |-> page,
             snippet          |-> snippet,
             relevance_score  |-> score,
             match_type       |-> mtype,
             highlighted_text |-> snippet])

-----------------------------------------------------------------------------
(* Configuration: src/core/models/configuration.py, SearchRankWeights *)

\* SearchRankWeights defaults (hundredths)
DefaultWeights == [exact |-> 100, fuzzy |-> 70, semantic |-> 90]

\* SearchSettings defaults used by the search path (thresholds in hundredths)
DefaultSettings ==
    [fuzzy_accuracy_target         |-> 80,
     semantic_similarity_threshold |-> 70,
     enable_spelling_correction    |-> TRUE,
     enable_ai_search              |-> TRUE,
     fallback_to_preencoded_only   |-> FALSE]

\* SearchManager.__init__: ttl = max(0.0, float(cache_ttl_seconds)); the
\* es / fuzz / model fields say what the lazy imports and injected stubs do:
\*   es    : "client" (a client is available) | "none" (_get_es returns None)
\*   fuzz  : "ok" | "missing" (import fails) | "raises" (fuzz.ratio raises)
\*   model : "ok" | "missing" (_get_model returns None) | "raises" (encode raises)
SearchManagerInit(settings, weights, cache_ttl_seconds, es, fuzz, model) ==
    [settings |-> settings,
     weights  |-> weights,
     cache_ttl_seconds |-> cache_ttl_seconds,   \* the constructor argument
     ttl      |-> Max(0, cache_ttl_seconds),
     es       |-> es,
     fuzz     |-> fuzz,
     model    |-> model]

-----------------------------------------------------------------------------
(* External collaborators, as deterministic stubs (the roles of _FakeES,   *)
(* _Fuzz and _FakeModel in tests/core/search/test_search_manager.py).      *)

\* rapidfuzz.fuzz.ratio(query, text): an integer in 0..100
FuzzRatio(query, text) ==
    CASE text = "hello world" -> 90
      [] text = "helium atom" -> 100
      [] text = "hello"       -> 90
      [] OTHER                -> 20

\* model.encode([text], normalize_embeddings=True)[0]: vectors of norm 5 or 0
Encode(text) ==
    CASE text = "hello world" -> <<4, 3>>
      [] text = "helium atom" -> <<5, 0>>
      [] text = "help docs"   -> <<0, 5>>
      [] text = "bye"         -> <<-5, 0>>
      [] text = ""            -> <<0, 0>>
      [] OTHER                -> <<5, 0>>

\* math.sqrt on the perfect squares the stub vectors produce
Isqrt(n) == CHOOSE r \in 0..n : r * r <= n /\ n < (r + 1) * (r + 1)

RECURSIVE Dot(_, _, _)
Dot(a, b, i) ==
    IF i > Min(Len(a), Len(b)) THEN 0 ELSE a[i] * b[i] + Dot(a, b, i + 1)

\* SearchManager._cosine, in hundredths; 0.0 when either norm is zero
Cosine(a, b) ==
    LET num == Dot(a, b, 1)
        da  == Isqrt(Dot(a, a, 1))
        db  == Isqrt(Dot(b, b, 1))
    IN  IF da = 0 \/ db = 0 THEN 0 ELSE (num * 100) \div (da * db)

NoCalls == [es |-> 0, provider |-> 0, encode |-> 0]

AddCalls(c, d) ==
    [es |-> c.es + d.es, provider |-> c.provider + d.provider,
     encode |-> c.encode + d.encode]

\* What an adapter call did: outcome r (Ok(list) or Raised), the collaborator
\* calls it made, and the query it sent to the full-text backend (or None)
Adapter(r, calls, sent) ==
    [ok |-> r.ok, exc |-> r.exc, val |-> r.val, calls |-> calls, sent |-> sent]

-----------------------------------------------------------------------------
(* SearchManager._search_exact *)

FIELDS == <<"title^2", "content">>

MultiMatch(query) == [multi_match |-> [query |-> query, fields |-> FIELDS]]

\* the query dict handed to es.search
ExactQuery(query, topic_filter) ==
    IF topic_filter /= None
    THEN [bool |-> [must   |-> <<MultiMatch(query)>>,
                    filter |-> <<[term |-> topic_filter]>>]]
    ELSE MultiMatch(query)

\* one hit of the response -> SearchResult (may raise ValueError); a hit
\* carrying score_text has a _score that float() cannot convert
ExactHit(hit, weights) ==
    LET snippet == IF hit.highlight /= <<>> THEN hit.highlight[1] ELSE hit.content
    IN  IF "score_text" \in DOMAIN hit THEN Raised("ValueError")
        ELSE SearchResult(hit.id, hit.title, 0, snippet,
                          Min(100, hit.score * 10) * weights.exact, EXACT)

RECURSIVE ExactHits(_, _, _, _)
ExactHits(hits, i, out, weights) ==
    IF i > Len(hits) THEN Ok(out)
    ELSE LET r == ExactHit(hits[i], weights)
         IN  IF r.ok THEN ExactHits(hits, i + 1, Append(out, r.val), weights) ELSE r

\* resp: what es.search does on this call: [kind |-> "raise"],
\* [kind |-> "ok", hits |-> <<...>>], or [kind |-> "malformed"] for a returned
\* value without the hits mapping (resp.get / .get("hits") is not available)
SearchExact(c, query, limit, topic_filter, resp) ==
    IF c.es = "none" THEN Adapter(Ok(<<>>), NoCalls, None)
    ELSE LET q     == ExactQuery(query, topic_filter)
             calls == [NoCalls EXCEPT !.es = 1]
         IN  IF resp.kind = "raise" THEN Adapter(Ok(<<>>), calls, q)
             ELSE IF resp.kind = "malformed"
                  THEN Adapter(Raised("AttributeError"), calls, q)
             ELSE Adapter(ExactHits(resp.hits, 1, <<>>, c.weights), calls, q)

-----------------------------------------------------------------------------
(* SearchManager._search_fuzzy *)

\* mutant of FuzzyLoop: no threshold, every candidate is kept
RECURSIVE FuzzyLoopKeepAll(_, _, _, _, _)
FuzzyLoopKeepAll(c, query, cands, i, out) ==
    IF i > Len(cands) THEN Ok(out)
    ELSE IF c.fuzz = "raises" THEN Raised("RuntimeError")
    ELSE LET doc   == cands[i][1]
             text  == cands[i][2]
             score == FuzzRatio(query, text)
             r     == SearchResult(doc, doc, 0, text, score * c.weights.fuzzy, FUZZY)
         IN  IF r.ok THEN FuzzyLoopKeepAll(c, query, cands, i + 1, Append(out, r.val))
             ELSE r

\* the loop over the provider's candidates; cand = <<doc_id, text>>
RECURSIVE FuzzyLoop(_, _, _, _, _)
FuzzyLoop(c, query, cands, i, out) ==
    IF i > Len(cands) THEN Ok(out)
    ELSE IF c.fuzz = "raises" THEN Raised("RuntimeError")
    ELSE LET doc   == cands[i][1]
             text  == cands[i][2]
             score == FuzzRatio(query, text)
         IN  IF score >= c.settings.fuzzy_accuracy_target
             THEN LET r == SearchResult(doc, doc, 0, text, score * c.weights.fuzzy, FUZZY)
                  IN  IF r.ok THEN FuzzyLoop(c, query, cands, i + 1, Append(out, r.val))
                      ELSE r
             ELSE FuzzyLoop(c, query, cands, i + 1, out)

\* prov: what the candidate provider does: [kind |-> "raise"] or
\* [kind |-> "ok", cands |-> <<...>>]
SearchFuzzy(c, query, limit, prov) ==
    IF c.fuzz = "missing" THEN Adapter(Ok(<<>>), NoCalls, None)
    ELSE LET calls == [NoCalls EXCEPT !.provider = 1]
         IN  IF prov.kind = "raise" THEN Adapter(Raised("ProviderError"), calls, None)
             ELSE LET r == FuzzyLoop(c, query, prov.cands, 1, <<>>)
                  IN  IF r.ok THEN Adapter(Ok(SliceTo(r.val, limit)), calls, None)
                      ELSE Adapter(r, calls, None)

-----------------------------------------------------------------------------
(* SearchManager._search_semantic *)

\* the loop over candidates; n counts the encode calls made so far
RECURSIVE SemanticLoop(_, _, _, _, _)
SemanticLoop(c, q_vec, cands, i, out) ==
    IF i > Len(cands) THEN Ok(out)
    ELSE LET doc  == cands[i][1]
             text == cands[i][2]
             sim  == Cosine(q_vec, Encode(text))
         IN  IF sim >= c.settings.semantic_similarity_threshold
             THEN LET r == SearchResult(doc, doc, 0, text, sim * c.weights.semantic, SEMANTIC)
                  IN  IF r.ok THEN SemanticLoop(c, q_vec, cands, i + 1, Append(out, r.val))
                      ELSE [r EXCEPT !.val = i]
             ELSE SemanticLoop(c, q_vec, cands, i + 1, out)

SearchSemantic(c, query, limit, prov) ==
    IF c.model = "missing" THEN Adapter(Ok(<<>>), NoCalls, None)
    ELSE IF c.model = "raises"
         THEN Adapter(Raised("RuntimeError"), [NoCalls EXCEPT !.encode = 1], None)
    ELSE IF prov.kind = "raise"
         THEN Adapter(Raised("ProviderError"),
                      [NoCalls EXCEPT !.encode = 1, !.provider = 1], None)
    ELSE LET r == SemanticLoop(c, Encode(query), prov.cands, 1, <<>>)
         IN  IF r.ok
             THEN Adapter(Ok(SliceTo(r.val, limit)),
                          [NoCalls EXCEPT !.provider = 1, !.encode = 1 + Len(prov.cands)],
                          None)
             ELSE \* SearchResult raised at candidate r.val, after its encode
                  Adapter(Raised(r.exc),
                          [NoCalls EXCEPT !.provider = 1, !.encode = 1 + r.val], None)

-----------------------------------------------------------------------------
(* SearchManager.search: merge, sort, trim, cache *)

\* position of the entry of `merged` with r's (document_id, page_number), or 0
KeyIndex(merged, r) ==
    LET hits == {i \in 1..Len(merged) :
                    /\ merged[i].document_id = r.document_id
                    /\ merged[i].page_number = r.page_number}
    IN  IF hits = {} THEN 0 ELSE CHOOSE i \in hits : TRUE

\* mutant of MergeStep: the first result seen for a key always wins
MergeStepKeepFirst(merged, r) ==
    IF KeyIndex(merged, r) = 0 THEN Append(merged, r) ELSE merged

\* mutant of MergeStep: on equal scores the result seen last wins
MergeStepKeepLast(merged, r) ==
    LET i == KeyIndex(merged, r)
    IN  IF i = 0 THEN Append(merged, r)
        ELSE IF r.relevance_score >= merged[i].relevance_score
             THEN [merged EXCEPT ![i] = r]
             ELSE merged

\* the body of the merge loop; `merged` is the dict as the sequence of its
\* values in insertion order (replacing a value keeps the key's position)
MergeStep(merged, r) ==
    LET i == KeyIndex(merged, r)
    IN  IF i = 0 THEN Append(merged, r)
        ELSE IF r.relevance_score > merged[i].relevance_score
             THEN [merged EXCEPT ![i] = r]
             ELSE merged

RECURSIVE Merge(_, _, _)
Merge(parts, i, merged) ==
    IF i > Len(parts) THEN merged
    ELSE Merge(parts, i + 1, MergeStep(merged, parts[i]))

\* insert r after every element whose score is >= r's (stable, descending)
InsertDesc(sorted, r) ==
    LET n == Cardinality({i \in 1..Len(sorted) :
                             sorted[i].relevance_score >= r.relevance_score})
    IN  SubSeq(sorted, 1, n) \o <<r>> \o SubSeq(sorted, n + 1, Len(sorted))

\* sorted(values, key=relevance_score, reverse=True)
RECURSIVE SortDesc(_, _, _)
SortDesc(xs, i, sorted) ==
    IF i > Len(xs) THEN sorted
    ELSE SortDesc(xs, i + 1, InsertDesc(sorted, xs[i]))

\* mutant of SortAndTrim: trim without sorting
TrimUnsorted(merged, limit) == SliceTo(merged, limit)

\* results = sorted(...)[:limit]
SortAndTrim(merged, limit) == SliceTo(SortDesc(merged, 1, <<>>), limit)

\* the value of the local variable `key` when the cache is written: the merge
\* loop rebinds it to (document_id, page_number) of each part
StoreKey(key, parts) ==
    IF parts = <<>> THEN key
    ELSE <<parts[Len(parts)].document_id, parts[Len(parts)].page_number>>

\* cache lookup at the top of search
CacheHit(c, ch, key, t) ==
    /\ c.ttl > 0
    /\ key \in DOMAIN ch
    /\ t - ch[key].ts <= c.ttl

CachePut(ch, key, t, results) ==
    [k \in DOMAIN ch \cup {key} |->
        IF k = key THEN [ts |-> t, results |-> results] ELSE ch[k]]

\* mutant of CacheStore: the result is stored whatever the ttl
CacheStoreAlways(c, ch, key, t, results) == CachePut(ch, key, t, results)

\* if self._ttl > 0: self._cache[key] = (now, results)
CacheStore(c, ch, key, t, results) ==
    IF c.ttl > 0 THEN CachePut(ch, key, t, results) ELSE ch

\* the adapters in call order; a raising adapter ends the call
RunAdapters(c, query, limit, topic_filter, resp, prov) ==
    LET ex == SearchExact(c, query, limit, topic_filter, resp)
        fz == IF ex.ok /\ c.settings.enable_spelling_correction
              THEN SearchFuzzy(c, query, limit, prov)
              ELSE Adapter(Ok(<<>>), NoCalls, None)
        sm == IF ex.ok /\ fz.ok /\ c.settings.enable_ai_search
              THEN SearchSemantic(c, query, limit, prov)
              ELSE Adapter(Ok(<<>>), NoCalls, None)
        calls == AddCalls(ex.calls, AddCalls(fz.calls, sm.calls))
    IN  [ok    |-> ex.ok /\ fz.ok /\ sm.ok,
         exc   |-> IF ~ex.ok THEN ex.exc ELSE IF ~fz.ok THEN fz.exc ELSE sm.exc,
         parts |-> ex.val \o fz.val \o sm.val,
         exact |-> ex.val, fuzzy |-> fz.val, semantic |-> sm.val,
         calls |-> calls,
         sent  |-> ex.sent]

\* observation of one search call
Observation(key, t, hit, ok, exc, results, run) ==
    [key |-> key, start |-> t, hit |-> hit, ok |-> ok, exc |-> exc,
     results |-> results, parts |-> run.parts, calls |-> run.calls, sent |-> run.sent]

NoRun == [parts |-> <<>>, calls |-> NoCalls, sent |-> None]

-----------------------------------------------------------------------------
(* Inputs of the search model *)

Hit1 == [id |-> "D1", score |-> 2,  title |-> "Doc ES", content |-> "lorem ipsum",
       highlight |-> <<"<em>lorem</em> ipsum">>]
Hit2 == [id |-> "D2", score |-> 7,  title |-> "Doc Two", content |-> "hello", highlight |-> <<>>]
Hit3 == [id |-> "D3", score |-> 15, title |-> "Doc Three", content |-> "hello hello", highlight |-> <<>>]
Hit4 == [id |-> "D3", score |-> 9,  title |-> "Doc Three", content |-> "helium", highlight |-> <<>>]
HitNeg == [id |-> "D3", score |-> -5, title |-> "Doc Three", content |-> "", highlight |-> <<>>]

\* a hit whose _score is not a number
HitText == [id |-> "D2", score |-> 0, score_text |-> "n/a", title |-> "Doc Two",
            content |-> "hello", highlight |-> <<>>]

EsRaise    == [kind |-> "raise", hits |-> <<>>]
EsMalformed == [kind |-> "malformed", hits |-> <<>>]
EsHits(hs) == [kind |-> "ok", hits |-> hs]

Cand1 == <<"D1", "hello world">>
Cand2 == <<"D2", "help docs">>
Cand3 == <<"D3", "helium atom">>
Cand4 == <<"D1", "helium atom">>
Cand5 == <<"D2", "bye">>

ProviderRaise == [kind |-> "raise", cands |-> <<>>]
Provides(cs)  == [kind |-> "ok", cands |-> cs]

SettingsOff == [DefaultSettings EXCEPT !.enable_spelling_correction = FALSE,
                                       !.enable_ai_search = FALSE]
SettingsLow == [DefaultSettings EXCEPT !.fuzzy_accuracy_target = 60,
                                       !.semantic_similarity_threshold = 0]
\* thresholds are not validated: a negative one lets negative cosines pass
SettingsNeg == [DefaultSettings EXCEPT !.fuzzy_accuracy_target = 0,
                                       !.semantic_similarity_threshold = -100]

\* does a call on manager c reach the backend / the candidate provider at all
UsesEs(c) == c.es /= "none"
UsesProvider(c) ==
    \/ c.settings.enable_spelling_correction /\ c.fuzz /= "missing"
    \/ c.settings.enable_ai_search /\ c.model = "ok"

-----------------------------------------------------------------------------
(* The search state machine *)

EmptyCache == [k \in {} |-> 0]

NoObservation == Observation(<<>>, 0, FALSE, TRUE, None, <<>>, NoRun)

NoRequest ==
    [pending |-> FALSE, query |-> "", limit |-> 0, topic_filter |-> None,
     resp |-> EsHits(<<>>), prov |-> Provides(<<>>)]

IdleParse ==
    /\ expr = [text |-> <<>>, lexemes |-> <<>>]
    /\ pc = "idle"
    /\ built = Ok(<<>>)

\* no cache object, no strategy and no suggest call take part
IdleCaches   == lru = [kind |-> None, cap |-> 1, data |-> <<>>] /\ hist = <<>> /\ thr = <<>>
IdleStrategy == sem = [pending |-> FALSE]
IdleSuggest  == sug = [pending |-> FALSE]
IdleFanOut   == call = [pc |-> "none"]
IdleBus      == bus = [pending |-> FALSE]

\* SearchManager.search(query, limit, topic_filter), with what the backend
\* and the candidate provider answer during this call
Search(query, limit, topic_filter, resp, prov) ==
    LET key == <<query, limit, topic_filter>>
    IN  /\ nSearch < MaxSearches
        /\ nSearch' = nSearch + 1
        /\ UNCHANGED <<cfg, now>>
        /\ IF CacheHit(cfg, cache, key, now)
           THEN /\ last' = Observation(key, now, TRUE, TRUE, None,
                                       cache[key].results, NoRun)
                /\ UNCHANGED cache
           ELSE LET run     == RunAdapters(cfg, query, limit, topic_filter, resp, prov)
                    results == SortAndTrim(Merge(run.parts, 1, <<>>), limit)
                IN  IF run.ok
                    THEN /\ last' = Observation(key, now, FALSE, TRUE, None, results, run)
                         /\ cache' = CacheStore(cfg, cache, StoreKey(key, run.parts),
                                                now, results)
                    ELSE /\ last' = Observation(key, now, FALSE, FALSE, run.exc, <<>>, run)
                         /\ UNCHANGED cache

(* --- Spec: a manager serving a sequence of calls while the clock runs --- *)

\* (query, limit, topic_filter) of the calls: each differs from the first in
\* one component
Requests ==
    { <<"hello", 2, None>>, <<"hello", 1, None>>, <<"help", 2, None>>,
      <<"hello", 2, "algorithms/trees">> }

EsResponses       == {EsRaise, EsHits(<<>>), EsHits(<<Hit1, Hit2>>)}
ProviderResponses == {Provides(<<>>), Provides(<<Cand1, Cand3>>)}

\* constructions of SearchManager explored by Spec
Managers ==
    { SearchManagerInit(SettingsOff, DefaultWeights, 1, "client", "ok", "ok"),
      SearchManagerInit(SettingsOff, DefaultWeights, 0, "client", "ok", "ok"),
      SearchManagerInit(SettingsOff, DefaultWeights, -1, "client", "ok", "ok"),
      SearchManagerInit(DefaultSettings, DefaultWeights, 1, "client", "ok", "missing") }

InitSearch ==
    /\ cfg \in Managers
    /\ cache = EmptyCache
    /\ now = 0
    /\ nSearch = 0
    /\ last = NoObservation
    /\ req = NoRequest

DoSearch ==
    \E r \in Requests :
      \E resp \in IF UsesEs(cfg) THEN EsResponses ELSE {EsHits(<<>>)},
         prov \in IF UsesProvider(cfg) THEN ProviderResponses ELSE {Provides(<<>>)} :
        /\ Search(r[1], r[2], r[3], resp, prov)
        /\ UNCHANGED req
        /\ UNCHANGED parseVars
        /\ UNCHANGED <<cacheVars, semVars, sugVars, callVars, busVars>>

\* time.time() advances between calls
Tick ==
    /\ now < MaxTime
    /\ now' = now + 1
    /\ UNCHANGED <<cfg, cache, nSearch, last, req>>
    /\ UNCHANGED parseVars
    /\ UNCHANGED <<cacheVars, semVars, sugVars, callVars, busVars>>

Init == InitSearch /\ IdleParse /\ IdleCaches /\ IdleStrategy /\ IdleSuggest /\ IdleFanOut /\ IdleBus

Next == DoSearch \/ Tick

Spec == Init /\ [][Next]_vars

(* --- SpecCall: one call on a fresh manager, over a rich set of inputs --- *)

CallQueries == {"hello", "(hello", "hello AND"}
CallLimits  == {-1, 0, 1, 2, 3}
CallTopics  == {None, "algorithms/trees"}

CallEsResponses ==
    {EsRaise, EsMalformed, EsHits(<<Hit1, HitText>>), EsHits(<<Hit4>>)} \cup
    {EsHits(h) : h \in {<<>>, <<Hit1>>, <<Hit1, Hit2>>, <<Hit2, Hit3>>, <<Hit3, Hit1, Hit2>>,
                        <<Hit1, HitNeg>>}}

CallProviderResponses ==
    {ProviderRaise} \cup
    {Provides(cs) : cs \in {<<>>, <<Cand1>>, <<Cand1, Cand2>>, <<Cand1, Cand3>>, <<Cand1, Cand4>>,
                            <<Cand2, Cand3, Cand1>>, <<Cand3, Cand5, Cand1>>,
                            <<Cand4, Cand3>>}}

CallManagers ==
    { SearchManagerInit(SettingsOff, DefaultWeights, 1, "client", "ok", "ok"),
      SearchManagerInit(DefaultSettings, DefaultWeights, 1, "client", "ok", "ok"),
      SearchManagerInit(SettingsLow, DefaultWeights, 0, "client", "ok", "ok"),
      SearchManagerInit(DefaultSettings, DefaultWeights, 0, "client", "missing", "missing"),
      SearchManagerInit(DefaultSettings, DefaultWeights, 0, "client", "raises", "ok"),
      SearchManagerInit(DefaultSettings, DefaultWeights, 0, "client", "missing", "raises"),
      SearchManagerInit(SettingsLow, DefaultWeights, 0, "none", "ok", "ok"),
      SearchManagerInit(SettingsNeg, DefaultWeights, 0, "client", "missing", "ok"),
      SearchManagerInit(SettingsLow, [exact |-> 200, fuzzy |-> 70, semantic |-> 120],
                        0, "client", "ok", "ok"),
      SearchManagerInit(SettingsOff, [exact |-> -100, fuzzy |-> 70, semantic |-> 90],
                        0, "client", "ok", "ok") }

InitCall ==
    /\ cfg \in CallManagers
    /\ cache = EmptyCache
    /\ now = 0
    /\ nSearch = 0
    /\ last = NoObservation
    /\ \E query \in CallQueries, limit \in CallLimits, topic_filter \in CallTopics :
         \E resp \in IF UsesEs(cfg) THEN CallEsResponses ELSE {EsHits(<<>>)},
            prov \in IF UsesProvider(cfg) THEN CallProviderResponses
                                          ELSE {Provides(<<>>)} :
           req = [pending |-> TRUE, query |-> query, limit |-> limit,
                  topic_filter |-> topic_filter, resp |-> resp, prov |-> prov]
    /\ IdleParse
    /\ IdleCaches /\ IdleStrategy /\ IdleSuggest /\ IdleFanOut /\ IdleBus

\* the pending call is made
Call ==
    /\ req.pending
    /\ Search(req.query, req.limit, req.topic_filter, req.resp, req.prov)
    /\ req' = [req EXCEPT !.pending = FALSE]
    /\ UNCHANGED parseVars
    /\ UNCHANGED <<cacheVars, semVars, sugVars, callVars, busVars>>

SpecCall == InitCall /\ [][Call]_vars

-----------------------------------------------------------------------------
(* ExactSearchStrategy: tokenizer (src/core/search/strategies/exact.py)    *)
(* A string is a sequence of one-character strings; so is a token.         *)

LowerCase == <<"a","b","c","d","e","f","g","h","i","j","k","l","m",
               "n","o","p","q","r","s","t","u","v","w","x","y","z">>
UpperCase == <<"A","B","C","D","E","F","G","H","I","J","K","L","M",
               "N","O","P","Q","R","S","T","U","V","W","X","Y","Z">>
Digits    == {"0","1","2","3","4","5","6","7","8","9"}

\* str.upper() on one character
Upper(ch) ==
    IF \E k \in 1..26 : LowerCase[k] = ch
    THEN UpperCase[CHOOSE k \in 1..26 : LowerCase[k] = ch]
    ELSE ch

\* \s and \w of the token regex
IsSpace(ch) == ch \in {" ", "\t", "\n", "\r"}
IsWord(ch)  == \/ \E k \in 1..26 : LowerCase[k] = ch \/ UpperCase[k] = ch
               \/ ch \in Digits
               \/ ch = "_"

LP    == <<"(">>
RP    == <<")">>
AND   == <<"A", "N", "D">>
OR    == <<"O", "R">>
NOT   == <<"N", "O", "T">>
QUOTE == "\""

Keywords == <<AND, OR, NOT>>      \* in the order of the alternation (AND|OR|NOT)

\* first position >= p holding a character that is not whitespace (Len+1 if none)
RECURSIVE SkipSpace(_, _)
SkipSpace(s, p) ==
    IF p <= Len(s) /\ IsSpace(s[p]) THEN SkipSpace(s, p + 1) ELSE p

\* (AND|OR|NOT)\b with re.IGNORECASE at position j
KeywordAt(s, j, kw) ==
    /\ j + Len(kw) - 1 <= Len(s)
    /\ \A k \in 1..Len(kw) : Upper(s[j + k - 1]) = kw[k]
    /\ (j + Len(kw) > Len(s) \/ ~IsWord(s[j + Len(kw)]))

\* first position >= p holding a double quote (Len+1 if none)
RECURSIVE NextQuote(_, _)
NextQuote(s, p) ==
    IF p <= Len(s) /\ s[p] /= QUOTE THEN NextQuote(s, p + 1) ELSE p

\* end of the maximal run [^\s\)\(]+ starting at p (p-1 if the run is empty)
RECURSIVE BareEnd(_, _)
BareEnd(s, p) ==
    IF p <= Len(s) /\ ~IsSpace(s[p]) /\ s[p] /= "(" /\ s[p] /= ")"
    THEN BareEnd(s, p + 1) ELSE p - 1

\* self._token_re.match(s, pos): None, or [tok, end] for the first alternative
\* that matches after the optional whitespace
MatchToken(s, pos) ==
    LET j == SkipSpace(s, pos)
    IN  IF j > Len(s) THEN [matched |-> FALSE, tok |-> <<>>, end |-> pos]
        ELSE IF s[j] = "(" THEN [matched |-> TRUE, tok |-> LP, end |-> j]
        ELSE IF s[j] = ")" THEN [matched |-> TRUE, tok |-> RP, end |-> j]
        ELSE IF \E n \in 1..3 : KeywordAt(s, j, Keywords[n])
             THEN LET n == CHOOSE n \in 1..3 :
                              /\ KeywordAt(s, j, Keywords[n])
                              /\ \A m \in 1..(n - 1) : ~KeywordAt(s, j, Keywords[m])
                  IN  [matched |-> TRUE, tok |-> Keywords[n],
                       end |-> j + Len(Keywords[n]) - 1]
        ELSE IF s[j] = QUOTE /\ NextQuote(s, j + 1) <= Len(s)
                             /\ NextQuote(s, j + 1) >= j + 2
             THEN LET q == NextQuote(s, j + 1)
                  IN  [matched |-> TRUE, tok |-> SubSeq(s, j + 1, q - 1), end |-> q]
        ELSE [matched |-> TRUE, tok |-> SubSeq(s, j, BareEnd(s, j)),
              end |-> BareEnd(s, j)]

\* ExactSearchStrategy._tokenize
RECURSIVE Tokenize(_, _, _)
Tokenize(s, pos, tokens) ==
    IF pos > Len(s) THEN Ok(tokens)
    ELSE LET m == MatchToken(s, pos)
         IN  IF ~m.matched THEN Raised("ValueError")
             ELSE Tokenize(s, m.end + 1, Append(tokens, m.tok))

-----------------------------------------------------------------------------
(* ExactSearchStrategy: shunting-yard parser *)

Term(v)    == [node |-> "Term", value |-> v]
Not(c)     == [node |-> "Not",  child |-> c]
And(l, r)  == [node |-> "And",  left |-> l, right |-> r]
Or(l, r)   == [node |-> "Or",   left |-> l, right |-> r]

Last(s)  == s[Len(s)]
Front(s) == SubSeq(s, 1, Len(s) - 1)

IsOperator(t) == t = AND \/ t = OR \/ t = NOT

\* mutant of Prec: AND and OR share one precedence level
PrecFlat(op) ==
    IF op = NOT THEN 3 ELSE IF op = AND THEN 1 ELSE IF op = OR THEN 1 ELSE 0

\* prec(op)
Prec(op) ==
    IF op = NOT THEN 3 ELSE IF op = AND THEN 2 ELSE IF op = OR THEN 1 ELSE 0

\* apply_op(op) on the output stack
ApplyOp(op, output) ==
    IF op = NOT
    THEN IF output = <<>> THEN Raised("ValueError")
         ELSE Ok(Append(Front(output), Not(Last(output))))
    ELSE IF Len(output) < 2 THEN Raised("ValueError")
         ELSE LET right == Last(output)
                  left  == Last(Front(output))
                  rest  == Front(Front(output))
              IN  Ok(Append(rest, IF op = AND THEN And(left, right) ELSE Or(left, right)))

Stacks(output, ops) == [output |-> output, ops |-> ops]

\* while ops and ops[-1] != "(": apply_op(ops.pop())
RECURSIVE UnwindToParen(_, _)
UnwindToParen(output, ops) ==
    IF ops /= <<>> /\ Last(ops) /= LP
    THEN LET r == ApplyOp(Last(ops), output)
         IN  IF r.ok THEN UnwindToParen(r.val, Front(ops)) ELSE r
    ELSE Ok(Stacks(output, ops))

\* while ops and ops[-1] is an operator and prec(ops[-1]) >= prec(t): apply_op(ops.pop())
RECURSIVE UnwindByPrec(_, _, _)
UnwindByPrec(output, ops, t) ==
    IF ops /= <<>> /\ IsOperator(Last(ops)) /\ Prec(Last(ops)) >= Prec(t)
    THEN LET r == ApplyOp(Last(ops), output)
         IN  IF r.ok THEN UnwindByPrec(r.val, Front(ops), t) ELSE r
    ELSE Ok(Stacks(output, ops))

\* while ops: op = ops.pop(); a parenthesis is a mismatch; apply_op(op)
RECURSIVE Drain(_, _)
Drain(output, ops) ==
    IF ops = <<>> THEN Ok(output)
    ELSE IF Last(ops) = LP \/ Last(ops) = RP THEN Raised("ValueError")
    ELSE LET r == ApplyOp(Last(ops), output)
         IN  IF r.ok THEN Drain(r.val, Front(ops)) ELSE r

\* the token loop, then the drain and the final check len(output) == 1
RECURSIVE ParseTokens(_, _, _, _)
ParseTokens(tokens, i, output, ops) ==
    IF i > Len(tokens)
    THEN LET r == Drain(output, ops)
         IN  IF ~r.ok THEN r
             ELSE IF Len(r.val) /= 1 THEN Raised("ValueError")
             ELSE Ok(r.val[1])
    ELSE LET t == tokens[i]
         IN  IF t = LP THEN ParseTokens(tokens, i + 1, output, Append(ops, t))
             ELSE IF t = RP
                  THEN LET r == UnwindToParen(output, ops)
                       IN  IF ~r.ok THEN r
                           ELSE IF r.val.ops = <<>> THEN Raised("ValueError")
                           ELSE ParseTokens(tokens, i + 1, r.val.output, Front(r.val.ops))
             ELSE IF IsOperator(t)
                  THEN LET r == UnwindByPrec(output, ops, t)
                       IN  IF ~r.ok THEN r
                           ELSE ParseTokens(tokens, i + 1, r.val.output,
                                            Append(r.val.ops, t))
             ELSE ParseTokens(tokens, i + 1, Append(output, Term(t)), ops)

\* ExactSearchStrategy._parse
Parse(s) ==
    LET toks == Tokenize(s, 1, <<>>)
    IN  IF ~toks.ok THEN toks
        ELSE IF toks.val = <<>> THEN Raised("ValueError")
        ELSE ParseTokens(toks.val, 1, <<>>, <<>>)

-----------------------------------------------------------------------------
(* ExactSearchStrategy: compilation to the backend query *)

\* mutant of ToEs: an And node is compiled like an Or node
RECURSIVE ToEsAndAsShould(_)
ToEsAndAsShould(n) ==
    IF n.node = "Term" THEN MultiMatch(n.value)
    ELSE IF n.node = "Not"
         THEN [bool |-> [must_not |-> <<ToEsAndAsShould(n.child)>>]]
    ELSE [bool |-> [should |-> <<ToEsAndAsShould(n.left), ToEsAndAsShould(n.right)>>,
                    minimum_should_match |-> 1]]

\* ExactSearchStrategy._to_es
RECURSIVE ToEs(_)
ToEs(n) ==
    IF n.node = "Term" THEN MultiMatch(n.value)
    ELSE IF n.node = "Not" THEN [bool |-> [must_not |-> <<ToEs(n.child)>>]]
    ELSE IF n.node = "And"
         THEN [bool |-> [must |-> <<ToEs(n.left), ToEs(n.right)>>]]
    ELSE [bool |-> [should |-> <<ToEs(n.left), ToEs(n.right)>>,
                    minimum_should_match |-> 1]]

\* ExactSearchStrategy.build_query, keeping the tree it compiled
BuildQuery(s) ==
    LET root == Parse(s)
    IN  IF ~root.ok THEN root
        ELSE Ok([tree |-> root.val, es |-> ToEs(root.val)])

-----------------------------------------------------------------------------
(* SpecParse: build_query applied to expressions written from lexemes *)

MaxLexemes == 4       \* lexemes per generated expression

\* a lexeme as the author of the expression means it
Lex(kind, text) == [kind |-> kind, text |-> text]

TermA == Lex("term", <<"a">>)
TermB == Lex("term", <<"b">>)
TermC == Lex("term", <<"c">>)
KwAnd == Lex("and", AND)
KwOr  == Lex("or", OR)
KwNot == Lex("not", NOT)
KwLp  == Lex("lp", LP)
KwRp  == Lex("rp", RP)

Apple       == Lex("term", <<"a","p","p","l","e">>)
Cherry      == Lex("term", <<"c","h","e","r","r","y">>)
BananaBread == Lex("phrase", <<"b","a","n","a","n","a"," ","b","r","e","a","d">>)

Lexemes  == {TermA, TermB, KwAnd, KwOr, KwNot, KwLp, KwRp}
Operands == {TermA, TermB, TermC, BananaBread}

\* double-quoted phrases whose content reads like an operator or a parenthesis
QuotedAnd      == Lex("phrase", AND)
QuotedNot      == Lex("phrase", NOT)
QuotedLp       == Lex("phrase", LP)
QuotedRp       == Lex("phrase", RP)
QuotedLowerAnd == Lex("phrase", <<"a", "n", "d">>)

QuotedOperands == {QuotedAnd, QuotedNot, QuotedLp, QuotedRp, QuotedLowerAnd, BananaBread}

\* the characters a lexeme is written with
Written(l) == IF l.kind = "phrase" THEN <<QUOTE>> \o l.text \o <<QUOTE>> ELSE l.text

\* whitespace written before lexeme i: one space between lexemes ("spaced"),
\* none next to the inner side of a parenthesis ("tight"), a space and a tab
\* between lexemes ("wide") or before the first one ("leading")
Gap(ls, i, layout) ==
    IF i = 1 THEN (IF layout = "leading" THEN <<" ", "\t">> ELSE <<>>)
    ELSE IF layout = "tight" /\ (ls[i - 1].kind = "lp" \/ ls[i].kind = "rp") THEN <<>>
    ELSE IF layout = "wide" THEN <<" ", "\t">>
    ELSE <<" ">>

\* the layout "trailing" ends the expression with a space
RECURSIVE WriteFrom(_, _, _)
WriteFrom(ls, i, layout) ==
    IF i > Len(ls) THEN (IF layout = "trailing" THEN <<" ">> ELSE <<>>)
    ELSE Gap(ls, i, layout) \o Written(ls[i]) \o WriteFrom(ls, i + 1, layout)

Expression(ls, layout) == [text |-> WriteFrom(ls, 1, layout), lexemes |-> ls]

AppleExample ==
    Expression(<<KwLp, Apple, KwOr, BananaBread, KwRp, KwAnd, KwNot, Cherry>>, "tight")

ParseInputs ==
    {Expression(ls, layout) :
        ls \in UNION {[1..n -> Lexemes] : n \in 0..MaxLexemes},
        layout \in {"spaced", "tight"}}
    \cup {Expression(ls, layout) :
              ls \in UNION { { <<x, KwOr, y, KwAnd, z>>,
                               <<x, KwAnd, y, KwOr, z>>,
                               <<KwLp, x, KwOr, y, KwRp, KwAnd, z>>,
                               <<x, KwAnd, KwLp, y, KwOr, z, KwRp>> } :
                             x \in Operands, y \in Operands, z \in Operands },
              layout \in {"spaced", "tight"}}
    \cup {Expression(ls, "spaced") :
              ls \in UNION { { <<q>>, <<KwNot, q>>, <<TermA, KwAnd, q>>,
                               <<q, KwOr, TermB>> } : q \in QuotedOperands }}
    \cup {Expression(ls, layout) :
              ls \in UNION { { <<x>>, <<KwNot, x>>, <<x, KwAnd, y>>, <<x, KwOr, y>>,
                               <<KwLp, x, KwOr, y, KwRp>>,
                               <<x, KwAnd, KwLp, KwNot, y, KwRp>> } :
                             x \in Operands, y \in Operands },
              layout \in {"leading", "trailing", "wide"}}
    \cup {Expression(ls, layout) :
              ls \in UNION { { <<KwNot, KwNot, x>>, <<KwNot, KwLp, KwNot, x, KwRp>>,
                               <<KwNot, KwNot, KwNot, x>>, <<TermA, KwAnd, KwNot, KwNot, x>>,
                               <<KwNot, KwLp, x, KwAnd, TermB, KwRp>> } :
                             x \in Operands },
              layout \in {"spaced", "tight"}}
    \cup {AppleExample,
          Expression(<<KwNot, BananaBread>>, "spaced"),
          Expression(<<Apple, KwOr, BananaBread, KwAnd, Cherry>>, "spaced")}

IdleSearch ==
    /\ cfg = SearchManagerInit(DefaultSettings, DefaultWeights, 0, "client", "ok", "ok")
    /\ cache = EmptyCache
    /\ now = 0
    /\ nSearch = 0
    /\ last = NoObservation
    /\ req = NoRequest

InitParse ==
    /\ IdleSearch
    /\ IdleCaches /\ IdleStrategy /\ IdleSuggest /\ IdleFanOut /\ IdleBus
    /\ expr \in ParseInputs
    /\ pc = "ready"
    /\ built = Ok(<<>>)

\* ExactSearchStrategy().build_query(expr)
Build ==
    /\ pc = "ready"
    /\ built' = BuildQuery(expr.text)
    /\ pc' = "done"
    /\ UNCHANGED expr
    /\ UNCHANGED searchVars
    /\ UNCHANGED <<cacheVars, semVars, sugVars, callVars, busVars>>

SpecParse == InitParse /\ [][Build]_vars

-----------------------------------------------------------------------------
(* LRUCache (src/core/performance/lru_cache.py) and EmbeddingCache         *)
(* (src/core/search/strategies/semantic.py): an OrderedDict, oldest first  *)

MaxOps == 4           \* get / put calls per behaviour of SpecLru

\* Python None where a cached value is expected; cached values are non-empty
\* tuples
NoValue == <<>>

\* OrderedDict as the sequence of its items [k, v] in order; position of key, or 0
OdIndex(data, key) ==
    LET at == {i \in 1..Len(data) : data[i].k = key}
    IN  IF at = {} THEN 0 ELSE CHOOSE i \in at : TRUE

OdKeys(data) == {data[i].k : i \in 1..Len(data)}

\* OrderedDict.get(key): the value, or None
OdGet(data, key) ==
    IF OdIndex(data, key) = 0 THEN NoValue ELSE data[OdIndex(data, key)].v

\* OrderedDict.move_to_end(key): KeyError when the key is absent
MoveToEnd(data, key) ==
    LET i == OdIndex(data, key)
    IN  IF i = 0 THEN Raised("KeyError")
        ELSE Ok(SubSeq(data, 1, i - 1) \o SubSeq(data, i + 1, Len(data)) \o <<data[i]>>)

\* data[key] = value: a present key keeps its position
OdSet(data, key, value) ==
    LET i == OdIndex(data, key)
    IN  IF i = 0 THEN Append(data, [k |-> key, v |-> value])
        ELSE [data EXCEPT ![i] = [k |-> key, v |-> value]]

\* OrderedDict.popitem(last=False): KeyError when empty
PopFirst(data) == IF data = <<>> THEN Raised("KeyError") ELSE Ok(Tail(data))

\* LRUCache.__init__(capacity): raises ValueError for capacity <= 0
LRUCacheInit(capacity) ==
    IF capacity <= 0 THEN Raised("ValueError")
    ELSE Ok([kind |-> "LRUCache", cap |-> capacity, data |-> <<>>])

\* EmbeddingCache.__init__(max_size): _max = max(1, int(max_size))
EmbeddingCacheInit(max_size) ==
    [kind |-> "EmbeddingCache", cap |-> Max(1, max_size), data |-> <<>>]

\* mutant of LruGet: a hit does not refresh the entry (insertion order)
LruGetNoTouch(data, key) == [ret |-> OdGet(data, key), data |-> data]

\* LRUCache.get / EmbeddingCache.get run without interruption: the value
\* returned and the store afterwards
LruGet(data, key) ==
    LET val == OdGet(data, key)
    IN  [ret  |-> val,
         data |-> IF val /= NoValue THEN MoveToEnd(data, key).val ELSE data]

\* mutant of LruPut: nothing is ever evicted
LruPutNoEvict(data, cap, key, value) ==
    LET moved == IF OdIndex(data, key) /= 0 THEN MoveToEnd(data, key).val ELSE data
    IN  OdSet(moved, key, value)

\* LRUCache.put / EmbeddingCache.put run without interruption: the store afterwards
LruPut(data, cap, key, value) ==
    LET moved  == IF OdIndex(data, key) /= 0 THEN MoveToEnd(data, key).val ELSE data
        stored == OdSet(moved, key, value)
    IN  IF Len(stored) > cap THEN PopFirst(stored).val ELSE stored

(* --- SpecLru: one thread calling get and put on one cache --- *)

CacheKeys == {"ka", "kb", "kc"}

\* values a caller may put: an EmbeddingCache holds vectors, an LRUCache any
\* value, None included
PutValues(kind) ==
    IF kind = "LRUCache" THEN {<<1>>, <<2>>, NoValue} ELSE {<<1>>, <<2>>}

\* arguments handed to the constructors
Capacities == {-1, 0, 1, 2}

\* the caches that come out of a construction: a constructor that raises
\* leaves no cache behind
Caches ==
    {LRUCacheInit(capacity).val : capacity \in {c \in Capacities : LRUCacheInit(c).ok}}
    \cup {EmbeddingCacheInit(max_size) : max_size \in Capacities}

NoThreads == <<>>

\* a step on the cache leaves the rest of the system alone
OnlyCaches == UNCHANGED <<searchVars, parseVars, semVars, sugVars, callVars, busVars>>

InitLru ==
    /\ lru \in Caches
    /\ hist = <<>>
    /\ thr = NoThreads

\* cache.get(key)
GetCall ==
    \E key \in CacheKeys :
      LET r == LruGet(lru.data, key)
      IN  /\ Len(hist) < MaxOps
          /\ lru' = [lru EXCEPT !.data = r.data]
          /\ hist' = Append(hist, [op |-> "get", key |-> key, val |-> r.ret])
          /\ UNCHANGED thr
          /\ OnlyCaches

\* cache.put(key, value)
PutCall ==
    \E key \in CacheKeys :
      \E value \in PutValues(lru.kind) :
        /\ Len(hist) < MaxOps
        /\ lru' = [lru EXCEPT !.data = LruPut(lru.data, lru.cap, key, value)]
        /\ hist' = Append(hist, [op |-> "put", key |-> key, val |-> value])
        /\ UNCHANGED thr
        /\ OnlyCaches

InitCacheSpec ==
    /\ IdleSearch /\ IdleParse /\ IdleStrategy /\ IdleSuggest /\ IdleFanOut /\ IdleBus
    /\ InitLru

NextLru == GetCall \/ PutCall

SpecLru == InitCacheSpec /\ [][NextLru]_vars

-----------------------------------------------------------------------------
(* SemanticSearchStrategy (src/core/search/strategies/semantic.py)         *)

MaxSemCalls == 2      \* semantic searches per behaviour of SpecSemantic

\* cosine_similarity_numba, in hundredths: ValueError when the shapes differ,
\* 0.0 when either squared norm is zero
CosineNumba(a, b) ==
    IF Len(a) /= Len(b) THEN Raised("ValueError")
    ELSE LET num == Dot(a, b, 1)
             da  == Dot(a, a, 1)
             db  == Dot(b, b, 1)
         IN  IF da = 0 \/ db = 0 THEN Ok(0)
             ELSE Ok((num * 100) \div (Isqrt(da) * Isqrt(db)))

\* mutant of EmbedText: the cache is not consulted, every text is encoded
EmbedTextAlways(data, cap, text) ==
    [vec     |-> Encode(text),
     data    |-> LruPut(data, cap, text, Encode(text)),
     encodes |-> 1]

\* _embed_text(text) on the cache `data`: the vector, the cache afterwards and
\* the number of encode calls made (0 on a cache hit, 1 on a miss)
EmbedText(data, cap, text) ==
    LET g == LruGet(data, text)
    IN  IF g.ret /= NoValue
        THEN [vec |-> g.ret, data |-> g.data, encodes |-> 0]
        ELSE [vec     |-> Encode(text),
              data    |-> LruPut(g.data, cap, text, Encode(text)),
              encodes |-> 1]

\* what a semantic search did: outcome, output rows [doc, score, text], the
\* embedding cache afterwards and the encode calls made
SemRun(ok, exc, out, data, encodes) ==
    [ok |-> ok, exc |-> exc, out |-> out, data |-> data, encodes |-> encodes]

\* the candidate loop of SemanticSearchStrategy.search
RECURSIVE StrategyLoop(_, _, _, _, _, _, _, _)
StrategyLoop(threshold, q_vec, cands, i, out, data, cap, encodes) ==
    IF i > Len(cands) THEN SemRun(TRUE, None, out, data, encodes)
    ELSE LET e   == EmbedText(data, cap, cands[i][2])
             sim == CosineNumba(q_vec, e.vec)
         IN  IF ~sim.ok THEN SemRun(FALSE, sim.exc, <<>>, e.data, encodes + e.encodes)
             ELSE StrategyLoop(threshold, q_vec, cands, i + 1,
                               IF sim.val >= threshold
                               THEN Append(out, [doc |-> cands[i][1], score |-> sim.val,
                                                 text |-> cands[i][2]])
                               ELSE out,
                               e.data, cap, encodes + e.encodes)

\* insert row r after every row whose score is >= r's (stable, descending)
InsertByScore(sorted, r) ==
    LET n == Cardinality({i \in 1..Len(sorted) : sorted[i].score >= r.score})
    IN  SubSeq(sorted, 1, n) \o <<r>> \o SubSeq(sorted, n + 1, Len(sorted))

\* out.sort(key=lambda x: x[1], reverse=True)
RECURSIVE SortByScore(_, _, _)
SortByScore(xs, i, sorted) ==
    IF i > Len(xs) THEN sorted
    ELSE SortByScore(xs, i + 1, InsertByScore(sorted, xs[i]))

\* out.sort(...); return out[:limit]
StrategyTail(out, limit) == SliceTo(SortByScore(out, 1, <<>>), limit)

\* SemanticSearchStrategy.search(query, limit) with settings `st` and the
\* embedding cache `c`
StrategySearch(st, c, query, limit, prov) ==
    IF ~st.enable_ai_search THEN SemRun(TRUE, None, <<>>, c.data, 0)
    ELSE IF prov.kind = "raise" THEN SemRun(FALSE, "ProviderError", <<>>, c.data, 0)
    ELSE IF prov.cands = <<>> THEN SemRun(TRUE, None, <<>>, c.data, 0)
    ELSE IF st.fallback_to_preencoded_only THEN SemRun(TRUE, None, <<>>, c.data, 0)
    ELSE LET q == EmbedText(c.data, c.cap, query)
             r == StrategyLoop(st.semantic_similarity_threshold, q.vec, prov.cands, 1,
                               <<>>, q.data, c.cap, q.encodes)
         IN  IF r.ok THEN [r EXCEPT !.out = StrategyTail(r.out, limit)] ELSE r

\* the semantic step of SearchManager.search on a manager built from the same
\* settings, as rows [doc, score, text]
ManagerSemanticStep(st, query, limit, prov) ==
    LET c == SearchManagerInit(st, DefaultWeights, 0, "client", "ok", "ok")
        a == SearchSemantic(c, query, limit, prov)
    IN  IF ~st.enable_ai_search THEN SemRun(TRUE, None, <<>>, <<>>, 0)
        ELSE SemRun(a.ok, a.exc,
                    IF a.ok THEN [i \in 1..Len(a.val) |->
                                    [doc   |-> a.val[i].document_id,
                                     score |-> a.val[i].relevance_score,
                                     text  |-> a.val[i].snippet]]
                            ELSE <<>>,
                    <<>>, a.calls.encode)

(* --- SpecSemantic: semantic searches through the strategy and the manager --- *)

SettingsPreencoded == [SettingsLow EXCEPT !.fallback_to_preencoded_only = TRUE]
SettingsNoAi       == [DefaultSettings EXCEPT !.enable_ai_search = FALSE]

SemSettings == {DefaultSettings, SettingsLow, SettingsPreencoded, SettingsNoAi}
SemLimits   == {0, 1, 2}
SemProviderResponses ==
    {Provides(cs) : cs \in {<<>>, <<Cand1, Cand3>>, <<Cand2, Cand3, Cand1>>,
                            <<Cand3, Cand5, Cand1>>}}

NoSemObservation ==
    [who |-> None, query |-> "", limit |-> 0, prov |-> Provides(<<>>),
     ok |-> TRUE, exc |-> None, out |-> <<>>, encodes |-> 0]

SemObservation(who, query, limit, prov, r) ==
    [who |-> who, query |-> query, limit |-> limit, prov |-> prov,
     ok |-> r.ok, exc |-> r.exc, out |-> r.out, encodes |-> r.encodes]

InitSemantic ==
    /\ IdleSearch /\ IdleParse /\ IdleSuggest /\ IdleFanOut /\ IdleBus
    /\ \E st \in SemSettings :
         sem = [pending |-> TRUE, settings |-> st, n |-> 0, obs |-> NoSemObservation]
    /\ lru \in {EmbeddingCacheInit(max_size) : max_size \in {1, 1000}}
    /\ hist = <<>>
    /\ thr = NoThreads

\* strategy.search(query, limit)
StrategyCall ==
    \E query \in {"hello"}, limit \in SemLimits, prov \in SemProviderResponses :
      LET r == StrategySearch(sem.settings, lru, query, limit, prov)
      IN  /\ sem.pending /\ sem.n < MaxSemCalls
          /\ sem' = [sem EXCEPT !.n = @ + 1,
                                !.obs = SemObservation("strategy", query, limit, prov, r)]
          /\ lru' = [lru EXCEPT !.data = r.data]
          /\ UNCHANGED <<hist, thr>>
          /\ UNCHANGED <<searchVars, parseVars, sugVars, callVars, busVars>>

\* the semantic step of manager.search(query, limit)
ManagerCall ==
    \E query \in {"hello"}, limit \in SemLimits, prov \in SemProviderResponses :
      LET r == ManagerSemanticStep(sem.settings, query, limit, prov)
      IN  /\ sem.pending /\ sem.n < MaxSemCalls
          /\ sem' = [sem EXCEPT !.n = @ + 1,
                                !.obs = SemObservation("manager", query, limit, prov, r)]
          /\ UNCHANGED <<lru, hist, thr>>
          /\ UNCHANGED <<searchVars, parseVars, sugVars, callVars, busVars>>

NextSemantic == StrategyCall \/ ManagerCall

SpecSemantic == InitSemantic /\ [][NextSemantic]_vars

-----------------------------------------------------------------------------
(* Threads sharing one EmbeddingCache. The methods take no lock, so another *)
(* thread may run between any two statements of get and put; each          *)
(* OrderedDict operation is one step.                                       *)

Threads == {"t1", "t2"}

\* the frame of a thread: the call it makes, its position in the method, the
\* local `vec` of get, and the value returned
Frame(op, key, value) ==
    [op |-> op, key |-> key, value |-> value,
     pc |-> IF op = "get" THEN "get_lookup" ELSE "put_contains",
     vec |-> NoValue, ret |-> NoValue]

ThreadCalls ==
    {Frame("get", key, NoValue) : key \in CacheKeys}
    \cup {Frame("put", key, value) : key \in CacheKeys, value \in {<<1>>, <<2>>}}

\* the puts (by one thread, before the others start) that filled the cache
Prefills ==
    UNION {[1..n -> {[op |-> "put", key |-> key, val |-> <<1>>] : key \in {"ka", "kb"}}]
             : n \in 0..2}

RECURSIVE Prefill(_, _, _, _)
Prefill(data, cap, puts, i) ==
    IF i > Len(puts) THEN data
    ELSE Prefill(LruPut(data, cap, puts[i].key, puts[i].val), cap, puts, i + 1)

InitThreads ==
    /\ IdleSearch /\ IdleParse /\ IdleStrategy /\ IdleSuggest /\ IdleFanOut /\ IdleBus
    /\ hist \in Prefills
    /\ \E max_size \in {1, 2} :
         lru = [EmbeddingCacheInit(max_size) EXCEPT
                   !.data = Prefill(<<>>, Max(1, max_size), hist, 1)]
    /\ thr \in [Threads -> ThreadCalls]

\* the call of thread t returns
Returns(t, ret) ==
    /\ thr' = [thr EXCEPT ![t].pc = "done", ![t].ret = ret]
    /\ hist' = Append(hist, [op |-> thr[t].op, key |-> thr[t].key,
                             val |-> IF thr[t].op = "get" THEN ret ELSE thr[t].value])

\* the call of thread t raises
Raises(t) ==
    /\ thr' = [thr EXCEPT ![t].pc = "raised"]
    /\ UNCHANGED hist

\* get: vec = self._store.get(key)
GetLookup(t) ==
    /\ thr[t].pc = "get_lookup"
    /\ thr' = [thr EXCEPT ![t].vec = OdGet(lru.data, thr[t].key), ![t].pc = "get_touch"]
    /\ UNCHANGED <<lru, hist>>
    /\ OnlyCaches

\* get: if vec is not None: self._store.move_to_end(key); return vec
GetTouch(t) ==
    /\ thr[t].pc = "get_touch"
    /\ IF thr[t].vec = NoValue
       THEN Returns(t, NoValue) /\ UNCHANGED lru
       ELSE LET m == MoveToEnd(lru.data, thr[t].key)
            IN  IF m.ok THEN lru' = [lru EXCEPT !.data = m.val] /\ Returns(t, thr[t].vec)
                ELSE Raises(t) /\ UNCHANGED lru
    /\ OnlyCaches

\* put: if key in self._store
PutContains(t) ==
    /\ thr[t].pc = "put_contains"
    /\ thr' = [thr EXCEPT ![t].pc = IF OdIndex(lru.data, thr[t].key) /= 0
                                    THEN "put_move" ELSE "put_store"]
    /\ UNCHANGED <<lru, hist>>
    /\ OnlyCaches

\* put: self._store.move_to_end(key)
PutMove(t) ==
    /\ thr[t].pc = "put_move"
    /\ LET m == MoveToEnd(lru.data, thr[t].key)
       IN  IF m.ok
           THEN /\ lru' = [lru EXCEPT !.data = m.val]
                /\ thr' = [thr EXCEPT ![t].pc = "put_store"]
                /\ UNCHANGED hist
           ELSE Raises(t) /\ UNCHANGED lru
    /\ OnlyCaches

\* put: self._store[key] = vec
PutStore(t) ==
    /\ thr[t].pc = "put_store"
    /\ lru' = [lru EXCEPT !.data = OdSet(lru.data, thr[t].key, thr[t].value)]
    /\ thr' = [thr EXCEPT ![t].pc = "put_len"]
    /\ UNCHANGED hist
    /\ OnlyCaches

\* put: if len(self._store) > self._max
PutLen(t) ==
    /\ thr[t].pc = "put_len"
    /\ IF Len(lru.data) > lru.cap
       THEN thr' = [thr EXCEPT ![t].pc = "put_pop"] /\ UNCHANGED hist
       ELSE Returns(t, NoValue)
    /\ UNCHANGED lru
    /\ OnlyCaches

\* put: self._store.popitem(last=False)
PutPop(t) ==
    /\ thr[t].pc = "put_pop"
    /\ LET p == PopFirst(lru.data)
       IN  IF p.ok THEN lru' = [lru EXCEPT !.data = p.val] /\ Returns(t, NoValue)
           ELSE Raises(t) /\ UNCHANGED lru
    /\ OnlyCaches

NextThreads ==
    \E t \in Threads :
        \/ GetLookup(t)
        \/ GetTouch(t)
        \/ PutContains(t)
        \/ PutMove(t)
        \/ PutStore(t)
        \/ PutLen(t)
        \/ PutPop(t)

SpecThreads == InitThreads /\ [][NextThreads]_vars

-----------------------------------------------------------------------------
(* SearchManager.suggest. Prefixes, texts and tokens are sequences of       *)
(* one-character strings; the texts of the model hold letters and           *)
(* whitespace.                                                              *)

\* str.lower() on one character
Lower(ch) ==
    IF \E k \in 1..26 : UpperCase[k] = ch
    THEN LowerCase[CHOOSE k \in 1..26 : UpperCase[k] = ch]
    ELSE ch

\* str.lower()
LowerStr(s) == [i \in 1..Len(s) |-> Lower(s[i])]

\* str.startswith(p)
StartsWith(s, p) == Len(p) <= Len(s) /\ SubSeq(s, 1, Len(p)) = p

\* ord() of a letter (0 for the other characters)
Ord(ch) ==
    IF \E k \in 1..26 : UpperCase[k] = ch
    THEN 64 + (CHOOSE k \in 1..26 : UpperCase[k] = ch)
    ELSE IF \E k \in 1..26 : LowerCase[k] = ch
         THEN 96 + (CHOOSE k \in 1..26 : LowerCase[k] = ch)
         ELSE 0

\* a < b for str: by code point, a proper prefix first
RECURSIVE StrLess(_, _)
StrLess(a, b) ==
    IF b = <<>> THEN FALSE
    ELSE IF a = <<>> THEN TRUE
    ELSE IF Ord(a[1]) /= Ord(b[1]) THEN Ord(a[1]) < Ord(b[1])
    ELSE StrLess(Tail(a), Tail(b))

\* text.split(): the maximal runs of non-whitespace characters from p on
RECURSIVE Split(_, _, _, _)
Split(s, p, cur, out) ==
    IF p > Len(s) THEN (IF cur = <<>> THEN out ELSE Append(out, cur))
    ELSE IF IsSpace(s[p])
         THEN Split(s, p + 1, <<>>, IF cur = <<>> THEN out ELSE Append(out, cur))
         ELSE Split(s, p + 1, Append(cur, s[p]), out)

\* position of tok among the keys of the dict `seen`, or 0
SeenIndex(seen, tok) ==
    LET at == {i \in 1..Len(seen) : seen[i].tok = tok}
    IN  IF at = {} THEN 0 ELSE CHOOSE i \in at : TRUE

\* the inner loop: seen[tok] = seen.get(tok, 0) + 1 for the matching tokens
RECURSIVE CountTokens(_, _, _, _)
CountTokens(toks, i, prefix_low, seen) ==
    IF i > Len(toks) THEN seen
    ELSE LET tok == toks[i]
             at  == SeenIndex(seen, tok)
         IN  IF StartsWith(LowerStr(tok), prefix_low)
             THEN CountTokens(toks, i + 1, prefix_low,
                              IF at = 0 THEN Append(seen, [tok |-> tok, n |-> 1])
                              ELSE [seen EXCEPT ![at].n = @ + 1])
             ELSE CountTokens(toks, i + 1, prefix_low, seen)

\* the outer loop over the provider's (doc, text) pairs
RECURSIVE CountTexts(_, _, _, _)
CountTexts(cands, i, prefix_low, seen) ==
    IF i > Len(cands) THEN seen
    ELSE CountTexts(cands, i + 1, prefix_low,
                    CountTokens(Split(cands[i].text, 1, <<>>, <<>>), 1, prefix_low, seen))

\* the sort key (-count, token): a sorts before b
SuggestBefore(a, b) == a.n > b.n \/ (a.n = b.n /\ StrLess(a.tok, b.tok))

InsertSuggestion(sorted, r) ==
    LET n == Cardinality({i \in 1..Len(sorted) : ~SuggestBefore(r, sorted[i])})
    IN  SubSeq(sorted, 1, n) \o <<r>> \o SubSeq(sorted, n + 1, Len(sorted))

RECURSIVE SortSuggestions(_, _, _)
SortSuggestions(seen, i, sorted) ==
    IF i > Len(seen) THEN sorted
    ELSE SortSuggestions(seen, i + 1, InsertSuggestion(sorted, seen[i]))

\* mutant of RankSuggestions: the tokens in first-seen order
RankFirstSeen(seen) == [i \in 1..Len(seen) |-> seen[i].tok]

\* [w for w, _ in sorted(seen.items(), key=lambda kv: (-kv[1], kv[0]))]
RankSuggestions(seen) ==
    LET sorted == SortSuggestions(seen, 1, <<>>)
    IN  [i \in 1..Len(sorted) |-> sorted[i].tok]

\* SearchManager.suggest(prefix, limit)
Suggest(prefix, limit, prov) ==
    IF prefix = <<>> THEN Ok(<<>>)
    ELSE IF prov.kind = "raise" THEN Raised("ProviderError")
    ELSE Ok(SliceTo(RankSuggestions(CountTexts(prov.cands, 1, LowerStr(prefix), <<>>)),
                    limit))

(* --- SpecSuggest: one suggest call --- *)

WHello   == <<"h","e","l","l","o">>
WHelloUp == <<"H","e","l","l","o">>
WHelp    == <<"h","e","l","p">>
WHelium  == <<"h","e","l","i","u","m">>
WHe      == <<"h","e">>
WWorld   == <<"w","o","r","l","d">>
WDocs    == <<"d","o","c","s">>
WAtom    == <<"a","t","o","m">>

\* the words of a text written with the given whitespace between and around them
RECURSIVE WriteWords(_, _, _)
WriteWords(words, i, layout) ==
    IF i > Len(words) THEN (IF layout = "wide" THEN <<" ">> ELSE <<>>)
    ELSE (IF layout = "wide" THEN <<" ", "\t">> ELSE IF i > 1 THEN <<" ">> ELSE <<>>)
         \o words[i] \o WriteWords(words, i + 1, layout)

\* a (doc, text) pair of the provider, with the words its text was written from
TextCand(doc, words, layout) ==
    [doc |-> doc, text |-> WriteWords(words, 1, layout), words |-> words]

SuggestPrefixes == {<<>>, WHe, <<"H", "E">>, <<"h","e","l","l">>, WWorld}
SuggestLimits   == {-1, 0, 1, 2, 5}

SuggestTexts ==
    { <<>>,
      <<TextCand("D1", <<WHello, WWorld>>, "spaced"),
        TextCand("D2", <<WHelp, WDocs>>, "spaced"),
        TextCand("D3", <<WHelium, WAtom>>, "spaced")>>,
      <<TextCand("D1", <<WHelp, WDocs, WHello>>, "wide"),
        TextCand("D2", <<WHello, WHe>>, "spaced")>>,
      <<TextCand("D1", <<WHelloUp, WHello, WHelp>>, "spaced"),
        TextCand("D2", <<WHelp, WHelloUp, WHello>>, "wide")>>,
      <<TextCand("D1", <<WHelloUp, WHello>>, "spaced")>>,
      <<TextCand("D1", <<WHelium, WHelp, WHello, WHe, WHelp>>, "spaced"),
        TextCand("D2", <<>>, "wide")>> }

SuggestProviderResponses == {ProviderRaise} \cup {Provides(cs) : cs \in SuggestTexts}

InitSuggest ==
    /\ IdleSearch /\ IdleParse /\ IdleCaches /\ IdleStrategy /\ IdleFanOut /\ IdleBus
    /\ \E prefix \in SuggestPrefixes, limit \in SuggestLimits,
          prov \in SuggestProviderResponses :
         sug = [pending |-> TRUE, prefix |-> prefix, limit |-> limit, prov |-> prov,
                done |-> FALSE, ok |-> TRUE, exc |-> None, out |-> <<>>]

\* manager.suggest(prefix, limit)
SuggestCall ==
    /\ sug.pending /\ ~sug.done
    /\ LET r == Suggest(sug.prefix, sug.limit, sug.prov)
       IN  sug' = [sug EXCEPT !.done = TRUE, !.ok = r.ok, !.exc = r.exc, !.out = r.val]
    /\ UNCHANGED <<searchVars, parseVars, cacheVars, semVars, callVars, busVars>>

SpecSuggest == InitSuggest /\ [][SuggestCall]_vars

-----------------------------------------------------------------------------
(* Claims about SearchManager.search *)

SameKey(r, p) ==
    r.document_id = p.document_id /\ r.page_number = p.page_number

\* a step of the behaviour that is a search call
IsSearchStep == nSearch' = nSearch + 1

\* C1 (as claimed): with ttl > 0, a search with the same (query, limit,
\* topic_filter) as the previous returned search, made within ttl of it,
\* returns that search's list and calls no backend, provider or encoder --
\* whether that list was empty or not.
C1_SecondSearchIsCached ==
    [][ ( /\ IsSearchStep
          /\ nSearch > 0
          /\ cfg.ttl > 0
          /\ last.ok
          /\ last'.key = last.key
          /\ now - last.start <= cfg.ttl )
        => ( /\ last'.ok
             /\ last'.results = last.results
             /\ last'.calls = NoCalls ) ]_vars

\* the fuzzy or semantic collaborators of this call are unavailable or failing
FuzzySemanticFailure ==
    \/ cfg.fuzz /= "ok"
    \/ cfg.model /= "ok"
    \/ req.prov.kind = "raise"

\* what the exact adapter alone does with this call's backend response
ExactAlone == SearchExact(cfg, req.query, req.limit, req.topic_filter, req.resp)

\* C2 (as claimed): when the exact adapter itself succeeds, a failing or
\* unavailable fuzzy / semantic collaborator never makes search raise; the
\* call returns normally.
C2_FuzzySemanticFailureAbsorbed ==
    (nSearch = 1 /\ ExactAlone.ok /\ FuzzySemanticFailure) => last.ok

\* C3: the returned list has at most one result per (document_id,
\* page_number); each returned result is one the adapters produced, and no
\* result the adapters produced for its key has a higher relevance_score.
C3_DedupKeepsMaxScore ==
    (nSearch = 1 /\ last.ok) =>
        /\ \A i, j \in 1..Len(last.results) :
              i /= j => ~SameKey(last.results[i], last.results[j])
        /\ \A i \in 1..Len(last.results) :
              /\ \E k \in 1..Len(last.parts) : last.parts[k] = last.results[i]
              /\ \A k \in 1..Len(last.parts) :
                    SameKey(last.parts[k], last.results[i]) =>
                        last.parts[k].relevance_score <= last.results[i].relevance_score

\* C3 witness: the adapters produced two results for one key, the lower score
\* first, and the returned list holds that key with the higher score
C3_Witness ==
    /\ nSearch = 1 /\ last.ok
    /\ \E a, b \in 1..Len(last.parts) :
          /\ a < b
          /\ SameKey(last.parts[a], last.parts[b])
          /\ last.parts[a].relevance_score < last.parts[b].relevance_score
          /\ \E i \in 1..Len(last.results) : last.results[i] = last.parts[b]

\* C4: every returned list, from a cache miss or a cache hit, is ordered by
\* non-increasing relevance_score.
C4_ResultsSortedDescending ==
    (nSearch > 0 /\ last.ok) =>
        \A i, j \in 1..Len(last.results) :
            i < j => last.results[i].relevance_score >= last.results[j].relevance_score

\* C4 witness: a call whose adapters produced a lower score before a higher
\* one for different keys and returned both
C4_Witness ==
    /\ nSearch > 0 /\ last.ok /\ ~last.hit
    /\ Len(last.results) >= 2
    /\ Len(last.parts) >= 2
    /\ last.parts[1].relevance_score < last.parts[2].relevance_score
    /\ last.results[1].relevance_score > last.results[2].relevance_score

\* C5 (as claimed, read generously for limit < 0 as "no elements"): the
\* returned list has at most `limit` elements and is the length-`limit`
\* prefix of the score-sorted merged list.
C5_AtMostLimitResults ==
    (nSearch = 1 /\ last.ok) =>
        LET full == SortDesc(Merge(last.parts, 1, <<>>), 1, <<>>)
            n    == Min(Max(req.limit, 0), Len(full))
        IN  /\ Len(last.results) <= Max(req.limit, 0)
            /\ last.results = SubSeq(full, 1, n)

\* C6: every SearchResult an adapter emitted has 0.0 <= relevance_score <= 1.0,
\* whatever the raw scores, similarities and weights were.
C6_ScoresInUnitRange ==
    nSearch = 1 =>
        \A k \in 1..Len(last.parts) :
            /\ 0 <= last.parts[k].relevance_score
            /\ last.parts[k].relevance_score <= ScoreOne

\* C6 witness: a raw score times a rank weight left [0, 1]: the adapter
\* raised ValueError instead of emitting the result, after emitting others
C6_Witness ==
    /\ nSearch = 1
    /\ ~last.ok /\ last.exc = "ValueError"
    /\ Len(last.parts) >= 1

\* the backend interaction of this call fails: the call raises, the response
\* lacks the hits structure, or a hit has a non-numeric or negative score
BackendFailure ==
    \/ req.resp.kind \in {"raise", "malformed"}
    \/ \E i \in 1..Len(req.resp.hits) :
          "score_text" \in DOMAIN req.resp.hits[i] \/ req.resp.hits[i].score < 0

\* the fuzzy and semantic steps of this call, taken alone, do not raise
OtherAdaptersSucceed ==
    /\ cfg.settings.enable_spelling_correction
          => SearchFuzzy(cfg, req.query, req.limit, req.prov).ok
    /\ cfg.settings.enable_ai_search
          => SearchSemantic(cfg, req.query, req.limit, req.prov).ok

\* C12 (as claimed): whenever the backend interaction of the exact adapter
\* fails (raising call, malformed response, non-numeric or negative score),
\* the exact adapter contributes the empty list and the failure never makes
\* search raise.
C12_BackendFailureAbsorbed ==
    (nSearch = 1 /\ cfg.es = "client" /\ BackendFailure) =>
        /\ ExactAlone.ok
        /\ ExactAlone.val = <<>>
        /\ OtherAdaptersSucceed => last.ok

-----------------------------------------------------------------------------
(* Claims about ExactSearchStrategy and about malformed queries *)

IsOperand(l)     == l.kind \in {"term", "phrase"}
StartsOperand(l) == l.kind \in {"term", "phrase", "lp", "not"}
EndsOperand(l)   == l.kind \in {"term", "phrase", "rp"}

\* parentheses balance: never more ")" than "(" so far, and none left open
RECURSIVE ParensMatch(_, _, _)
ParensMatch(ls, i, depth) ==
    IF i > Len(ls) THEN depth = 0
    ELSE IF ls[i].kind = "lp" THEN ParensMatch(ls, i + 1, depth + 1)
    ELSE IF ls[i].kind = "rp" THEN depth > 0 /\ ParensMatch(ls, i + 1, depth - 1)
    ELSE ParensMatch(ls, i + 1, depth)

AdjacentOperands(ls) ==
    \E i \in 1..(Len(ls) - 1) : IsOperand(ls[i]) /\ IsOperand(ls[i + 1])

DanglingOperator(ls) ==
    \E i \in 1..Len(ls) :
        \/ /\ ls[i].kind \in {"and", "or"}
           /\ \/ i = 1
              \/ i = Len(ls)
              \/ ~EndsOperand(ls[i - 1])
              \/ ~StartsOperand(ls[i + 1])
        \/ /\ ls[i].kind = "not"
           /\ (i = Len(ls) \/ ~StartsOperand(ls[i + 1]))

\* the malformed expressions the claim lists
Malformed(ls) ==
    \/ ls = <<>>
    \/ ~ParensMatch(ls, 1, 0)
    \/ AdjacentOperands(ls)
    \/ DanglingOperator(ls)

\* C7 (as claimed): build_query raises ValueError for every malformed
\* expression: unmatched parenthesis, an operator without its operands in
\* place, two operands with no operator between them, the empty string.
C7_MalformedRejected ==
    (pc = "done" /\ Malformed(expr.lexemes)) => ~built.ok

\* the characters of the query strings of the search model
QueryText(q) ==
    CASE q = "hello"     -> <<"h","e","l","l","o">>
      [] q = "(hello"    -> <<"(","h","e","l","l","o">>
      [] q = "hello AND" -> <<"h","e","l","l","o"," ","A","N","D">>

\* C8 (as claimed): a search whose query is a malformed boolean expression
\* raises the parse error and sends nothing to the full-text backend.
C8_MalformedQueryAborts ==
    (nSearch = 1 /\ ~BuildQuery(QueryText(req.query)).ok) =>
        /\ ~last.ok
        /\ last.exc = "ValueError"
        /\ last.calls.es = 0

\* ls has the given shape: "t" stands for any operand, other entries are kinds
HasShape(ls, shape) ==
    /\ Len(ls) = Len(shape)
    /\ \A i \in 1..Len(shape) :
          IF shape[i] = "t" THEN IsOperand(ls[i]) ELSE ls[i].kind = shape[i]

Parsed(tree) == built.ok /\ built.val.tree = tree

\* C9: NOT binds tighter than AND, AND tighter than OR, parentheses override:
\* for all terms a, b, c:  a OR b AND c = Or(a, And(b, c)),
\* NOT a AND b = And(Not(a), b),  a AND NOT b = And(a, Not(b)),
\* (a OR b) AND c = And(Or(a, b), c).
C9_Precedence ==
    pc = "done" =>
        LET ls   == expr.lexemes
            T(i) == Term(ls[i].text)
        IN  /\ HasShape(ls, <<"t", "or", "t", "and", "t">>)
                  => Parsed(Or(T(1), And(T(3), T(5))))
            /\ HasShape(ls, <<"not", "t", "and", "t">>)
                  => Parsed(And(Not(T(2)), T(4)))
            /\ HasShape(ls, <<"t", "and", "not", "t">>)
                  => Parsed(And(T(1), Not(T(4))))
            /\ HasShape(ls, <<"lp", "t", "or", "t", "rp", "and", "t">>)
                  => Parsed(And(Or(T(2), T(4)), T(7)))

\* C9 witness: 'a OR b AND c' with distinct neighbours was parsed to an Or
\* whose right child is the And
C9_Witness ==
    /\ pc = "done"
    /\ HasShape(expr.lexemes, <<"t", "or", "t", "and", "t">>)
    /\ expr.lexemes[1] /= expr.lexemes[3]
    /\ built.ok
    /\ built.val.tree.node = "Or"
    /\ built.val.tree.right.node = "And"

\* q is the compiled form of tree n, clause by clause
RECURSIVE Compiles(_, _)
Compiles(n, q) ==
    CASE n.node = "Term" ->
            q = [multi_match |-> [query |-> n.value,
                                  fields |-> <<"title^2", "content">>]]
      [] n.node = "Not" ->
            /\ DOMAIN q = {"bool"}
            /\ DOMAIN q.bool = {"must_not"}
            /\ Len(q.bool.must_not) = 1
            /\ Compiles(n.child, q.bool.must_not[1])
      [] n.node = "And" ->
            /\ DOMAIN q = {"bool"}
            /\ DOMAIN q.bool = {"must"}
            /\ Len(q.bool.must) = 2
            /\ Compiles(n.left, q.bool.must[1])
            /\ Compiles(n.right, q.bool.must[2])
      [] n.node = "Or" ->
            /\ DOMAIN q = {"bool"}
            /\ DOMAIN q.bool = {"should", "minimum_should_match"}
            /\ q.bool.minimum_should_match = 1
            /\ Len(q.bool.should) = 2
            /\ Compiles(n.left, q.bool.should[1])
            /\ Compiles(n.right, q.bool.should[2])

AppleCompiled ==
    LET mm(v) == [multi_match |-> [query |-> v, fields |-> <<"title^2", "content">>]]
    IN  [bool |-> [must |->
          << [bool |-> [should |-> <<mm(Apple.text), mm(BananaBread.text)>>,
                        minimum_should_match |-> 1]],
             [bool |-> [must_not |-> <<mm(Cherry.text)>>]] >>]]

\* C10: compilation is structural (Term -> multi_match over title^2, content;
\* Not -> must_not; And -> must of both in order; Or -> should of both with
\* minimum_should_match 1), and (apple OR "banana bread") AND NOT cherry
\* compiles to must [should(apple, banana bread), must_not(cherry)].
C10_CompilationIsStructural ==
    (pc = "done" /\ built.ok) =>
        /\ Compiles(built.val.tree, built.val.es)
        /\ expr = AppleExample => built.val.es = AppleCompiled

\* C10 witness: the apple expression was built into a must-list
C10_Witness ==
    /\ pc = "done"
    /\ expr = AppleExample
    /\ built.ok
    /\ built.val.tree.node = "And"
    /\ Len(built.val.es.bool.must) = 2

-----------------------------------------------------------------------------
(* Claims about quoted phrases *)

\* the Term values of a tree, left to right
RECURSIVE Leaves(_)
Leaves(n) ==
    IF n.node = "Term" THEN <<n.value>>
    ELSE IF n.node = "Not" THEN Leaves(n.child)
    ELSE Leaves(n.left) \o Leaves(n.right)

\* the texts of the operands of an expression, left to right
RECURSIVE OperandTexts(_, _)
OperandTexts(ls, i) ==
    IF i > Len(ls) THEN <<>>
    ELSE (IF IsOperand(ls[i]) THEN <<ls[i].text>> ELSE <<>>) \o OperandTexts(ls, i + 1)

HasQuoted(ls) == \E i \in 1..Len(ls) : ls[i].kind = "phrase"

\* C11 (as claimed): every double-quoted phrase of a well-formed expression
\* is parsed as exactly one Term holding the phrase without its quotes,
\* whatever the phrase contains: the Term leaves of the tree are the operands
\* of the expression in order, also when a phrase reads AND, NOT, ( or ).
C11_QuotedPhraseIsOneTerm ==
    (pc = "done" /\ HasQuoted(expr.lexemes) /\ ~Malformed(expr.lexemes)) =>
        /\ built.ok
        /\ Leaves(built.val.tree) = OperandTexts(expr.lexemes, 1)

-----------------------------------------------------------------------------
(* Claims about the semantic adapter *)

\* a semantic search has been made (through the strategy or the manager)
SemSearched == sem.pending /\ sem.n >= 1

\* C13 (as claimed): with fallback_to_preencoded_only set, a semantic search
\* returns the empty list without calling encode, in
\* SemanticSearchStrategy.search and in the semantic step of
\* SearchManager.search alike.
C13_PreencodedOnlyNeverEncodes ==
    (SemSearched /\ sem.settings.fallback_to_preencoded_only) =>
        /\ sem.obs.ok
        /\ sem.obs.out = <<>>
        /\ sem.obs.encodes = 0

\* similarity of a candidate text to the query of the observed search
SimOf(text) == Cosine(Encode(sem.obs.query), Encode(text))

\* the candidates of the observed search that pass the threshold
PassingCands ==
    {sem.obs.prov.cands[i] : i \in
        {j \in 1..Len(sem.obs.prov.cands) :
            SimOf(sem.obs.prov.cands[j][2]) >= sem.settings.semantic_similarity_threshold}}

KeptCands == {<<sem.obs.out[i].doc, sem.obs.out[i].text>> : i \in 1..Len(sem.obs.out)}

\* C14 (as claimed): the semantic adapter returns the `limit` highest-scoring
\* candidates that pass the threshold, in descending score order: no dropped
\* passing candidate scores higher than a kept one, in the strategy and in
\* the manager's semantic step alike.
C14_SemanticKeepsHighest ==
    ( /\ SemSearched
      /\ sem.obs.ok
      /\ sem.settings.enable_ai_search
      /\ ~sem.settings.fallback_to_preencoded_only ) =>
        /\ KeptCands \subseteq PassingCands
        /\ Len(sem.obs.out) = Min(sem.obs.limit, Cardinality(PassingCands))
        /\ \A i \in 1..(Len(sem.obs.out) - 1) :
              sem.obs.out[i].score >= sem.obs.out[i + 1].score
        /\ \A d \in PassingCands \ KeptCands :
              \A k \in KeptCands : SimOf(d[2]) <= SimOf(k[2])

-----------------------------------------------------------------------------
(* Claims about the caches *)

\* every thread has finished its call
Quiescent == \A t \in Threads : thr[t].pc \in {"done", "raised"}

\* value v was put for key by a call made before or during the run
WasPut(key, v) ==
    \/ \E i \in 1..Len(hist) : hist[i].op = "put" /\ hist[i].key = key /\ hist[i].val = v
    \/ \E t \in Threads : thr[t].op = "put" /\ thr[t].key = key /\ thr[t].value = v

\* C15 (as claimed): for every interleaving of the get and put steps of
\* several threads on one EmbeddingCache, no call raises, the store holds at
\* most its capacity once the calls have returned, and every value a get
\* returned for a key had been put for that key.
C15_CachesSafeUnderConcurrency ==
    thr /= NoThreads =>
        /\ \A t \in Threads : thr[t].pc /= "raised"
        /\ Quiescent => Len(lru.data) <= lru.cap
        /\ \A t \in Threads :
              (thr[t].pc = "done" /\ thr[t].op = "get" /\ thr[t].ret /= NoValue)
                  => WasPut(thr[t].key, thr[t].ret)

-----------------------------------------------------------------------------
(* Claims about the result cache of SearchManager *)

\* C16 (as claimed): a search whose cache entry is older than the ttl runs
\* the adapters again, returns the fresh list and replaces the stale entry
\* with (now, fresh list), so that a later search within the ttl hits it.
C16_StaleEntryReplaced ==
    [][ ( /\ IsSearchStep
          /\ cfg.ttl > 0
          /\ last'.key \in DOMAIN cache
          /\ now - cache[last'.key].ts > cfg.ttl
          /\ last'.ok )
        => ( /\ ~last'.hit
             /\ last'.key \in DOMAIN cache'
             /\ cache'[last'.key] = [ts |-> now, results |-> last'.results] ) ]_vars

\* C17: with cache_ttl_seconds 0 or negative (clamped to 0) nothing is ever
\* cached: the result cache stays empty and every search runs the adapters
\* (here: calls the backend once).
C17_ZeroTtlDisablesCache ==
    cfg.cache_ttl_seconds <= 0 =>
        /\ cfg.ttl = 0
        /\ cache = EmptyCache
        /\ (nSearch > 0 /\ UsesEs(cfg)) => (~last.hit /\ last.calls.es = 1)

\* C17 witness: a manager built with a negative ttl has served two searches,
\* the last one returning results, and holds no cache entry
C17_Witness ==
    /\ cfg.cache_ttl_seconds < 0
    /\ nSearch = 2
    /\ last.ok /\ last.results /= <<>>
    /\ ~last.hit
    /\ cache = EmptyCache

-----------------------------------------------------------------------------
(* Claims about LRU eviction *)

\* the calls of history h that use key k: a put of k, or a get of k that
\* returned a value
Uses(h, k) ==
    {i \in 1..Len(h) : h[i].key = k /\ (h[i].op = "put" \/ h[i].val /= NoValue)}

\* position in h of the most recent use of k (0 if never used)
LastUse(h, k) ==
    IF Uses(h, k) = {} THEN 0
    ELSE CHOOSE i \in Uses(h, k) : \A j \in Uses(h, k) : j <= i

\* C18: eviction follows access order: when a put of a new key finds the
\* cache full, exactly one key is evicted and it is the one whose most recent
\* get-hit or put is the oldest; every other key stays.
C18_EvictsLeastRecentlyUsed ==
    [][ ( /\ Len(hist') = Len(hist) + 1
          /\ hist'[Len(hist')].op = "put"
          /\ hist'[Len(hist')].key \notin OdKeys(lru.data)
          /\ Len(lru.data) = lru.cap )
        => LET victims == OdKeys(lru.data) \ OdKeys(lru'.data)
               kept    == OdKeys(lru.data) \ victims
           IN  /\ Cardinality(victims) = 1
               /\ OdKeys(lru'.data) = kept \cup {hist'[Len(hist')].key}
               /\ \A v \in victims : \A k \in kept :
                     LastUse(hist, v) < LastUse(hist, k) ]_vars

\* C18 witness: with capacity 2, ka was put, kb was put, ka was read, and the
\* put of kc evicted kb although kb was inserted after ka
C18_Witness ==
    /\ lru.cap = 2
    /\ Len(hist) = 4
    /\ hist[1].op = "put" /\ hist[1].key = "ka"
    /\ hist[2].op = "put" /\ hist[2].key = "kb"
    /\ hist[3].op = "get" /\ hist[3].key = "ka" /\ hist[3].val /= NoValue
    /\ hist[4].op = "put" /\ hist[4].key = "kc"
    /\ OdKeys(lru.data) = {"ka", "kc"}

-----------------------------------------------------------------------------
(* Claims about SearchManager.suggest *)

\* the suggest call has returned normally
Suggested == sug.pending /\ sug.done /\ sug.ok

\* the words of all texts the provider returned, as they were written
RECURSIVE WordsFrom(_, _)
WordsFrom(cands, i) ==
    IF i > Len(cands) THEN <<>> ELSE cands[i].words \o WordsFrom(cands, i + 1)

AllWords == WordsFrom(sug.prov.cands, 1)

\* the words that start with the prefix, letter case ignored
MatchingWords ==
    {AllWords[i] : i \in {j \in 1..Len(AllWords) :
        StartsWith(LowerStr(AllWords[j]), LowerStr(sug.prefix))}}

\* number of occurrences of the token exactly as written
Frequency(tok) == Cardinality({i \in 1..Len(AllWords) : AllWords[i] = tok})

\* number of occurrences of the token, letter case ignored
FrequencyIgnoringCase(tok) ==
    Cardinality({i \in 1..Len(AllWords) : LowerStr(AllWords[i]) = LowerStr(tok)})

\* token a ranks before token b: more frequent, or as frequent and smaller
RanksBefore(a, b) ==
    \/ Frequency(a) > Frequency(b)
    \/ Frequency(a) = Frequency(b) /\ StrLess(a, b)

Suggestions == {sug.out[i] : i \in 1..Len(sug.out)}

\* C19: suggest returns the tokens that start with the prefix (case ignored)
\* in descending order of frequency, ties in ascending lexicographic order,
\* truncated to limit: no token twice, every token left out ranks after
\* every token returned, and at most limit tokens (limit >= 0) are returned.
\* The frequency of a token is the number of its occurrences as written.
C19_SuggestionsRanked ==
    Suggested =>
        /\ sug.prefix = <<>> => sug.out = <<>>
        /\ Suggestions \subseteq MatchingWords
        /\ \A i \in 1..Len(sug.out) : \A j \in (i + 1)..Len(sug.out) :
              sug.out[i] /= sug.out[j] /\ RanksBefore(sug.out[i], sug.out[j])
        /\ sug.prefix /= <<>> =>
              /\ \A w \in MatchingWords \ Suggestions :
                    \A t \in Suggestions : RanksBefore(t, w)
              /\ sug.limit >= 0 =>
                    Len(sug.out) = Min(sug.limit, Cardinality(MatchingWords))

\* C19 witness: a call returned two tokens of different frequency and left
\* out a third matching token
C19_Witness ==
    /\ Suggested
    /\ Len(sug.out) = 2
    /\ Frequency(sug.out[1]) > Frequency(sug.out[2])
    /\ Cardinality(MatchingWords) > 2

\* C20 (as claimed): occurrences that differ only in letter case are counted
\* together: no two suggestions are equal up to letter case, and the
\* suggestions are in descending order of their case-insensitive frequency.
C20_CountsCaseInsensitively ==
    Suggested =>
        \A i \in 1..Len(sug.out) : \A j \in (i + 1)..Len(sug.out) :
            /\ LowerStr(sug.out[i]) /= LowerStr(sug.out[j])
            /\ FrequencyIgnoringCase(sug.out[i]) >= FrequencyIgnoringCase(sug.out[j])

-----------------------------------------------------------------------------
(* SearchManager.search with collaborators that take time. search calls     *)
(* _search_exact, _search_fuzzy and _search_semantic one after the other     *)
(* on the calling thread and waits for each to return; the settings          *)
(* search_timeout_seconds and core_search_timeout_ms are read nowhere.       *)

MaxWait == 4          \* ticks of the clock while search waits for one adapter

\* SearchSettings.core_search_timeout_ms = 500, in clock ticks of 250 ms
Budget == 2

Adapters == <<"exact", "fuzzy", "semantic">>      \* in call order

\* is the adapter called at all (manager.py lines 57, 60, 64)
AdapterEnabled(c, a) ==
    CASE a = "exact"    -> TRUE
      [] a = "fuzzy"    -> c.settings.enable_spelling_correction
      [] a = "semantic" -> c.settings.enable_ai_search

\* the statement reached after adapter number i returned
RECURSIVE NextStop(_, _)
NextStop(c, i) ==
    IF i > Len(Adapters) THEN "merge"
    ELSE IF AdapterEnabled(c, Adapters[i]) THEN Adapters[i]
    ELSE NextStop(c, i + 1)

AdapterIndex(a) == CHOOSE i \in 1..Len(Adapters) : Adapters[i] = a

FanOutQuery == "hello"
FanOutLimit == 2
FanOutResp  == EsHits(<<Hit1, Hit2>>)
FanOutProv  == Provides(<<Cand1, Cand3>>)

\* what the adapter hands back once its collaborator has answered
Contribution(c, a) ==
    CASE a = "exact"    -> SearchExact(c, FanOutQuery, FanOutLimit, None, FanOutResp)
      [] a = "fuzzy"    -> SearchFuzzy(c, FanOutQuery, FanOutLimit, FanOutProv)
      [] a = "semantic" -> SearchSemantic(c, FanOutQuery, FanOutLimit, FanOutProv)

FanOutManagers ==
    { SearchManagerInit(SettingsLow, DefaultWeights, 0, "client", "ok", "ok"),
      SearchManagerInit(SettingsOff, DefaultWeights, 0, "client", "ok", "ok"),
      SearchManagerInit([SettingsLow EXCEPT !.enable_ai_search = FALSE],
                        DefaultWeights, 0, "client", "ok", "ok") }

NoFanOut == [a \in {"exact", "fuzzy", "semantic"} |-> 0]

InitFanOut ==
    /\ cfg \in FanOutManagers
    /\ cache = EmptyCache
    /\ now = 0
    /\ nSearch = 0
    /\ last = NoObservation
    /\ req = NoRequest
    /\ call = [pc |-> "start", latency |-> NoFanOut, hangs |-> {}, answers |-> NoFanOut,
               waited |-> 0, parts |-> <<>>, merged |-> <<>>, results |-> <<>>]
    /\ IdleParse /\ IdleCaches /\ IdleStrategy /\ IdleSuggest /\ IdleBus

OnlyCall == UNCHANGED <<cache, nSearch, last, req, parseVars, cacheVars, semVars,
                        sugVars, busVars>>

\* search is entered: key, now, no cache lookup (ttl 0), parts = []. What the
\* collaborators will do during this call is fixed here: latency is the number
\* of ticks each needs before it answers, hangs the ones that never answer,
\* answers what each adapter makes of its collaborator's answer
BeginSearch ==
    /\ call.pc = "start"
    /\ \E latency \in [{"exact", "fuzzy", "semantic"} -> {0, 1, 3}],
          hangs \in SUBSET {"exact", "fuzzy", "semantic"} :
         /\ Cardinality(hangs) <= 1
         /\ call' = [call EXCEPT !.pc = NextStop(cfg, 1), !.waited = 0,
                                 !.latency = latency, !.hangs = hangs,
                                 !.answers = [a \in DOMAIN NoFanOut |->
                                                 Contribution(cfg, a).val]]
    /\ UNCHANGED <<cfg, now>>
    /\ OnlyCall

\* the collaborator of adapter a answers and parts.extend(...) runs
AdapterReturns(a) ==
    /\ call.pc = a
    /\ a \notin call.hangs
    /\ call.waited >= call.latency[a]
    /\ call' = [call EXCEPT !.pc = NextStop(cfg, AdapterIndex(a) + 1),
                            !.waited = 0,
                            !.parts = @ \o call.answers[a]]
    /\ UNCHANGED <<cfg, now>>
    /\ OnlyCall

ExactReturns    == AdapterReturns("exact")
FuzzyReturns    == AdapterReturns("fuzzy")
SemanticReturns == AdapterReturns("semantic")

\* one iteration of `for r in parts`; call.parts holds the parts not yet visited
MergeNext ==
    /\ call.pc = "merge"
    /\ call.parts /= <<>>
    /\ call' = [call EXCEPT !.merged = MergeStep(call.merged, Head(call.parts)),
                            !.parts = Tail(call.parts)]
    /\ UNCHANGED <<cfg, now>>
    /\ OnlyCall

\* the loop is over: sort, trim and return
SortAndReturn ==
    /\ call.pc = "merge"
    /\ call.parts = <<>>
    /\ call' = [call EXCEPT !.pc = "returned",
                            !.results = SortAndTrim(call.merged, FanOutLimit)]
    /\ UNCHANGED <<cfg, now>>
    /\ OnlyCall

\* time passes while search waits inside an adapter
Waits ==
    /\ call.pc \in {"exact", "fuzzy", "semantic"}
    /\ call.waited < MaxWait
    /\ now' = now + 1
    /\ call' = [call EXCEPT !.waited = @ + 1]
    /\ UNCHANGED cfg
    /\ OnlyCall

NextFanOut ==
    \/ BeginSearch
    \/ ExactReturns
    \/ FuzzyReturns
    \/ SemanticReturns
    \/ MergeNext
    \/ SortAndReturn
    \/ Waits

\* the calling thread keeps running, the clock keeps going, and a collaborator
\* that does not hang answers
SpecFanOut == InitFanOut /\ [][NextFanOut]_vars /\ WF_vars(NextFanOut)

-----------------------------------------------------------------------------
(* Claims about slow adapters *)

\* an adapter's collaborator has used up the per-query budget without answering
Overdue == call.pc \in {"exact", "fuzzy", "semantic"} /\ call.waited > Budget

Returned == call.pc = "returned"

\* C21: a slow or hung adapter cannot block a query: once the backend call of
\* one adapter has not returned within the per-query time budget, the search
\* call still eventually returns.
C21_SlowAdapterCannotBlock == Overdue ~> Returned

-----------------------------------------------------------------------------
(* Claims about the validation of weights and thresholds *)

\* a rank weight that is positive and keeps similarity x weight within [0, 1]
ValidWeight(w) == 0 < w /\ w <= 100

\* a threshold within [0, 1]
ValidThreshold(t) == 0 <= t /\ t <= 100

ValidConfiguration(c) ==
    /\ ValidWeight(c.weights.exact)
    /\ ValidWeight(c.weights.fuzzy)
    /\ ValidWeight(c.weights.semantic)
    /\ ValidThreshold(c.settings.fuzzy_accuracy_target)
    /\ ValidThreshold(c.settings.semantic_similarity_threshold)

\* C22: invalid rank weights or thresholds are rejected when the manager or
\* its configuration is constructed, so no search call is ever served by a
\* manager whose weights or thresholds are invalid.
C22_InvalidConfigurationRejected == nSearch > 0 => ValidConfiguration(cfg)

-----------------------------------------------------------------------------
(* Claims about the fuzzy adapter *)

\* the call that was made reached the fuzzy adapter and returned
FuzzyRan ==
    /\ nSearch > 0 /\ ~req.pending
    /\ last.ok /\ ~last.hit
    /\ cfg.settings.enable_spelling_correction
    /\ cfg.fuzz = "ok"

\* the fuzzy adapter's contribution to the parts of the call
FuzzyKept == SelectSeq(last.parts, LAMBDA r : r.match_type = FUZZY)

\* the provider's candidates that reach the accuracy target, in provider order
FuzzyPassing ==
    SelectSeq(req.prov.cands,
              LAMBDA cd : FuzzRatio(req.query, cd[2]) >= cfg.settings.fuzzy_accuracy_target)

\* r is the result made of candidate cd
FuzzyResultOf(r, cd) ==
    /\ r.document_id = cd[1]
    /\ r.snippet = cd[2]
    /\ r.relevance_score = FuzzRatio(req.query, cd[2]) * cfg.weights.fuzzy
    /\ r.match_type = FUZZY

\* C23 (as stated): the fuzzy adapter keeps exactly the candidates whose
\* similarity is >= fuzzy_accuracy_target, each with relevance_score
\* similarity x weights.fuzzy and match_type FUZZY, and drops all others.
C23_FuzzyKeepsExactlyPassing ==
    FuzzyRan =>
        /\ Len(FuzzyKept) = Len(FuzzyPassing)
        /\ \A i \in 1..Len(FuzzyKept) : FuzzyResultOf(FuzzyKept[i], FuzzyPassing[i])

\* C23 (amended): the fuzzy adapter keeps only candidates whose similarity is
\* >= fuzzy_accuracy_target, each with relevance_score similarity x
\* weights.fuzzy and match_type FUZZY, in provider order and without gaps: its
\* output is a prefix of the passing candidates, of length min(limit, number
\* passing) for a limit >= 0.
C23_FuzzyKeepsFirstPassing ==
    FuzzyRan =>
        /\ Len(FuzzyKept) <= Len(FuzzyPassing)
        /\ \A i \in 1..Len(FuzzyKept) : FuzzyResultOf(FuzzyKept[i], FuzzyPassing[i])
        /\ req.limit >= 0 => Len(FuzzyKept) = Min(req.limit, Len(FuzzyPassing))

\* target 0.6, 'hello world' at 0.9 and another text at 0.2: only the first is kept
C23_Witness ==
    /\ FuzzyRan
    /\ cfg.settings.fuzzy_accuracy_target = 60
    /\ req.prov.cands = <<Cand1, Cand2>>
    /\ Len(FuzzyKept) = 1
    /\ FuzzyKept[1].document_id = "D1"
    /\ FuzzyKept[1].relevance_score = 90 * cfg.weights.fuzzy

-----------------------------------------------------------------------------
(* Claims about ties in the merge *)

\* the call that was made ran the adapters and returned
Merged == nSearch > 0 /\ ~req.pending /\ last.ok /\ ~last.hit

KeyOf(r) == <<r.document_id, r.page_number>>

\* positions in the parts (exact, then fuzzy, then semantic, each in the order
\* its adapter produced them) of the results with key k
PartsOf(k) == {i \in 1..Len(last.parts) : KeyOf(last.parts[i]) = k}

\* the first position at which key k was seen
FirstSeen(k) == CHOOSE i \in PartsOf(k) : \A j \in PartsOf(k) : i <= j

\* the first-seen part among those with the highest score for key k
FirstBest(k) ==
    CHOOSE i \in PartsOf(k) :
        /\ \A j \in PartsOf(k) :
              last.parts[j].relevance_score <= last.parts[i].relevance_score
        /\ \A j \in PartsOf(k) :
              last.parts[j].relevance_score = last.parts[i].relevance_score => i <= j

\* r comes before q in the merged ranking: higher score, or equal score and a
\* key that was seen earlier
Outranks(r, q) ==
    \/ r.relevance_score > q.relevance_score
    \/ /\ r.relevance_score = q.relevance_score
       /\ FirstSeen(KeyOf(r)) < FirstSeen(KeyOf(q))

PartKeys == {KeyOf(last.parts[i]) : i \in 1..Len(last.parts)}

ResultKeys == {KeyOf(last.results[i]) : i \in 1..Len(last.results)}

\* C24: among results with the same (document_id, page_number) and equal
\* score the merge keeps the one seen first, adapters being visited in the
\* order exact, fuzzy, semantic; the merged output is a function of the adapter
\* outputs alone: every result is the first-seen best part of its key, results
\* are ranked by score and, at equal score, by the first appearance of their
\* key, and a key left out ranks after every key returned.
C24_TiesKeepFirstSeen ==
    Merged =>
        /\ \A i \in 1..Len(last.results) :
              last.results[i] = last.parts[FirstBest(KeyOf(last.results[i]))]
        /\ \A i \in 1..Len(last.results) : \A j \in (i + 1)..Len(last.results) :
              Outranks(last.results[i], last.results[j])
        /\ \A k \in PartKeys \ ResultKeys : \A i \in 1..Len(last.results) :
              Outranks(last.results[i], last.parts[FirstBest(k)])

\* a call in which two adapters produced the same key with the same score, and
\* two different keys ended with the same score
C24_Witness ==
    /\ Merged
    /\ \E i \in 1..Len(last.results) :
          \E p \in PartsOf(KeyOf(last.results[i])) :
             /\ last.parts[p].relevance_score = last.results[i].relevance_score
             /\ last.parts[p].match_type /= last.results[i].match_type
             /\ last.results[i].match_type = EXACT
    /\ \E i \in 1..Len(last.results) : \E j \in (i + 1)..Len(last.results) :
          last.results[i].relevance_score = last.results[j].relevance_score

-----------------------------------------------------------------------------
(* Claims about the embedding cache of the semantic strategy *)

\* the texts a strategy search has to embed: the query and every candidate
NeededTexts(o) == {o.query} \cup {o.prov.cands[i][2] : i \in 1..Len(o.prov.cands)}

\* observation o is of a strategy search that went through the embedding loop
StrategyEmbedded(o) ==
    /\ o.who = "strategy" /\ o.ok
    /\ sem.settings.enable_ai_search
    /\ ~sem.settings.fallback_to_preencoded_only
    /\ o.prov.cands /= <<>>

\* C25: the strategy encodes a text only when its embedding is not in the
\* cache, and then inserts it: a search whose query and candidates are all
\* cached makes no encode call, and while the cache has room every missing
\* text is encoded exactly once and is cached afterwards.
C25_CachedTextNotReencoded ==
    [][(sem'.n = sem.n + 1 /\ StrategyEmbedded(sem'.obs)) =>
          LET needed  == NeededTexts(sem'.obs)
              missing == needed \ OdKeys(lru.data)
          IN  /\ missing = {} => sem'.obs.encodes = 0
              /\ Len(lru.data) + Cardinality(missing) <= lru.cap =>
                    /\ sem'.obs.encodes = Cardinality(missing)
                    /\ needed \subseteq OdKeys(lru'.data)
                    /\ \A i \in 1..Len(lru'.data) :
                          lru'.data[i].v = Encode(lru'.data[i].k)]_vars

\* a second search whose query and candidates were cached by the first made
\* no encode call
C25_Witness ==
    /\ sem.pending /\ sem.n = 2
    /\ StrategyEmbedded(sem.obs)
    /\ Len(sem.obs.prov.cands) >= 2
    /\ NeededTexts(sem.obs) \subseteq OdKeys(lru.data)
    /\ sem.obs.encodes = 0

-----------------------------------------------------------------------------
(* Claims about the capacity of the caches *)

\* the step is a put call
IsPut == hist' /= hist /\ hist'[Len(hist')].op = "put"

PutKey   == hist'[Len(hist')].key
PutValue == hist'[Len(hist')].val

\* construction: LRUCache rejects a capacity <= 0 with ValueError and
\* otherwise takes it as given; EmbeddingCache clamps max_size to at least 1
ConstructionChecked ==
    \A n \in Capacities :
        /\ n <= 0 => LRUCacheInit(n) = Raised("ValueError")
        /\ n > 0  => LRUCacheInit(n).ok /\ LRUCacheInit(n).val.cap = n
        /\ EmbeddingCacheInit(n).cap >= 1
        /\ n >= 1 => EmbeddingCacheInit(n).cap = n

\* C26: after any sequence of get and put calls the number of entries never
\* exceeds the capacity, which is at least 1; a put of a key already present
\* replaces its value and evicts nothing; LRUCache construction with capacity
\* <= 0 fails with ValueError and EmbeddingCache clamps max_size to at least 1.
C26_CapacityNeverExceeded ==
    /\ [](/\ Len(lru.data) <= lru.cap
          /\ lru.cap >= 1
          /\ ConstructionChecked)
    /\ [][(IsPut /\ PutKey \in OdKeys(lru.data)) =>
             /\ OdKeys(lru'.data) = OdKeys(lru.data)
             /\ Len(lru'.data) = Len(lru.data)
             /\ OdGet(lru'.data, PutKey) = PutValue]_vars

\* a full cache of capacity 2, built by a constructor given 2, after an
\* eviction and a put that replaced the value of a present key
C26_Witness ==
    /\ lru.cap = 2 /\ Len(lru.data) = 2
    /\ Len(hist) = 4
    /\ hist[4].op = "put" /\ hist[4].val = <<2>>
    /\ \E i \in 2..3 : /\ hist[i].op = "put" /\ hist[i].key = hist[4].key
                       /\ hist[i].val = <<1>>
                       /\ \A j \in (i + 1)..3 : hist[j].key /= hist[4].key
    /\ \E i \in 1..3 : hist[i].op = "put" /\ hist[i].key \notin OdKeys(lru.data)
    /\ OdGet(lru.data, hist[4].key) = <<2>>

-----------------------------------------------------------------------------
(* Claims about the keys of the result cache *)

\* C27: every key of the result cache is a (query, limit, topic_filter) triple
\* passed to an earlier search call, and the entry of the most recent call that
\* ran the adapters holds the time that call started and the list it returned.
C27_CacheKeysAreSearchKeys ==
    \A k \in DOMAIN cache :
        /\ Len(k) = 3
        /\ k \in Requests
        /\ (k = last.key /\ last.ok /\ ~last.hit) =>
              cache[k] = [ts |-> last.start, results |-> last.results]

-----------------------------------------------------------------------------
(* Claims about whitespace in expressions *)

\* the expression of the same lexemes written with one space between them
Spaced(ls) == WriteFrom(ls, 1, "spaced")

\* C28: whitespace around tokens is insignificant: an expression that is valid
\* when written with single spaces builds the same query, and never raises,
\* when whitespace is added before it, after it or between its tokens.
C28_WhitespaceInsignificant ==
    (pc = "done" /\ BuildQuery(Spaced(expr.lexemes)).ok) =>
        built = BuildQuery(Spaced(expr.lexemes))

-----------------------------------------------------------------------------
(* Claims about negation *)

\* the expression is NOT followed by the lexemes of an operand e, written with
\* single spaces or tight parentheses
Negation ==
    /\ expr.lexemes /= <<>>
    /\ expr.lexemes[1].kind = "not"
    /\ expr.text \in {WriteFrom(expr.lexemes, 1, "spaced"),
                      WriteFrom(expr.lexemes, 1, "tight")}

\* what build_query makes of the lexemes ls on their own
BuiltAlone(ls) == BuildQuery(Spaced(ls))

\* ls is a valid expression: well formed, and build_query accepts it
ValidAlone(ls) == ~Malformed(ls) /\ BuiltAlone(ls).ok

\* the lexemes between the parentheses of NOT ( e )
Inner(ls) == SubSeq(ls, 3, Len(ls) - 1)

\* C29: NOT applies to any operand, another negation included: for every valid
\* expression e, NOT e is valid and NOT ( e ) parses to Not of the tree of e;
\* NOT NOT a parses to Not(Not(Term a)), the tree of NOT (NOT a).
C29_NotAppliesToAnyOperand ==
    (pc = "done" /\ Negation) =>
        LET ls   == expr.lexemes
            T(i) == Term(ls[i].text)
        IN  /\ HasShape(ls, <<"not", "not", "t">>) => Parsed(Not(Not(T(3))))
            /\ HasShape(ls, <<"not", "lp", "not", "t", "rp">>) => Parsed(Not(Not(T(4))))
            /\ ValidAlone(Tail(ls)) => built.ok
            /\ (/\ Len(ls) >= 4
                /\ ls[2].kind = "lp" /\ ls[Len(ls)].kind = "rp"
                /\ ValidAlone(Inner(ls)))
                  => Parsed(Not(BuiltAlone(Inner(ls)).val.tree))

-----------------------------------------------------------------------------
\* EventBus (src/core/events/bus.py): subscribe, unsubscribe and publish called
\* from several threads.  Every access to _subs is made with _lock held; the
\* handlers of a publish are called after the lock is released.

MaxBusOps == 4            \* calls made on the bus in one behaviour
EventTypes == {"WindowClosed", "IndexingProgress"}
Handlers   == {"h1", "h2"}
\* what a handler does when called: return, raise an Exception, or raise a
\* BaseException that is no Exception (SystemExit, KeyboardInterrupt)
Outcomes   == {"returns", "Exception", "SystemExit"}

\* EventBus.__init__: no subscriptions, lock free
EventBusInit == [subs |-> [ty \in {} |-> <<>>], lock |-> "free"]

\* self._subs.get(ty, ()) : the list stored under exactly this type
SubsGet(subs, ty) == IF ty \in DOMAIN subs THEN subs[ty] ELSE <<>>

\* self._subs[ty].append(h) on the defaultdict
SubsAppend(subs, ty, h) ==
    [k \in DOMAIN subs \cup {ty} |-> IF k = ty THEN Append(SubsGet(subs, ty), h)
                                               ELSE subs[k]]

\* handlers.remove(h): the first occurrence goes, ValueError is swallowed
ListRemove(s, h) ==
    IF \E i \in 1..Len(s) : s[i] = h
    THEN LET i == CHOOSE j \in 1..Len(s) : s[j] = h /\ \A k \in 1..(j - 1) : s[k] /= h
         IN  SubSeq(s, 1, i - 1) \o SubSeq(s, i + 1, Len(s))
    ELSE s

\* the body of unsubscribe
SubsRemove(subs, ty, h) ==
    IF SubsGet(subs, ty) = <<>>
    THEN subs
    ELSE LET handlers == ListRemove(subs[ty], h)
         IN  IF handlers = <<>>
             THEN [k \in DOMAIN subs \ {ty} |-> subs[k]]
             ELSE [subs EXCEPT ![ty] = handlers]

NoFrame == [pc |-> "idle", op |-> "none", type |-> "none", handler |-> "none",
            handlers |-> <<>>, called |-> <<>>, expected |-> <<>>, barred |-> {},
            result |-> "none"]

\* Beside the bus and the frames of the threads the model records what the
\* callers have asked for: members[ty] are the handlers now subscribed for ty,
\* each once, in the order they subscribed; gone holds <<ty, h>> once an
\* unsubscribe(ty, h) has returned, until a subscribe(ty, h) takes effect; a
\* publish is barred from the handlers that were gone when it was called.
InitBus ==
    /\ IdleSearch /\ IdleParse /\ IdleCaches /\ IdleStrategy /\ IdleSuggest /\ IdleFanOut
    /\ bus = [subs |-> EventBusInit.subs, lock |-> EventBusInit.lock,
              thread |-> [t \in Threads |-> NoFrame],
              members |-> [ty \in EventTypes |-> <<>>], gone |-> {}, ops |-> 0]

OnlyBus == UNCHANGED <<searchVars, parseVars, cacheVars, semVars, sugVars, callVars>>

BusFrame(t) == bus.thread[t]

\* thread t calls bus.subscribe(ty, h)
SubscribeCall(t) ==
    /\ BusFrame(t).pc = "idle"
    /\ bus.ops < MaxBusOps
    /\ \E ty \in EventTypes, h \in Handlers :
         bus' = [bus EXCEPT
                   !.ops = @ + 1,
                   !.thread[t] = [NoFrame EXCEPT !.pc = "lock", !.op = "subscribe",
                                                 !.type = ty, !.handler = h]]
    /\ OnlyBus

\* thread t calls bus.unsubscribe(ty, h)
UnsubscribeCall(t) ==
    /\ BusFrame(t).pc = "idle"
    /\ bus.ops < MaxBusOps
    /\ \E ty \in EventTypes, h \in Handlers :
         bus' = [bus EXCEPT
                   !.ops = @ + 1,
                   !.thread[t] = [NoFrame EXCEPT !.pc = "lock", !.op = "unsubscribe",
                                                 !.type = ty, !.handler = h]]
    /\ OnlyBus

\* thread t calls bus.publish(event) with type(event) = ty
PublishCall(t) ==
    /\ BusFrame(t).pc = "idle"
    /\ bus.ops < MaxBusOps
    /\ \E ty \in EventTypes :
         bus' = [bus EXCEPT
                   !.ops = @ + 1,
                   !.thread[t] = [NoFrame EXCEPT
                                    !.pc = "lock", !.op = "publish", !.type = ty,
                                    !.barred = {h \in Handlers : <<ty, h>> \in bus.gone}]]
    /\ OnlyBus

\* with self._lock: the thread waits until the lock is free
Acquire(t) ==
    /\ BusFrame(t).pc = "lock"
    /\ bus.lock = "free"
    /\ bus' = [bus EXCEPT !.lock = t, !.thread[t].pc = "locked"]
    /\ OnlyBus

\* subscribe: append under the lock, release, return
SubscribeAppend(t) ==
    /\ BusFrame(t).pc = "locked" /\ BusFrame(t).op = "subscribe"
    /\ LET ty == BusFrame(t).type
           h  == BusFrame(t).handler
       IN  bus' = [bus EXCEPT
                     !.subs = SubsAppend(@, ty, h),
                     !.members[ty] = IF \E i \in 1..Len(@) : @[i] = h THEN @
                                     ELSE Append(@, h),
                     !.gone = @ \ {<<ty, h>>},
                     !.lock = "free",
                     !.thread = [u \in Threads |->
                         IF u = t
                         THEN NoFrame
                         ELSE IF @[u].op = "publish" /\ @[u].type = ty
                              THEN [@[u] EXCEPT !.barred = @ \ {h}]
                              ELSE @[u]]]
    /\ OnlyBus

\* unsubscribe: remove under the lock, release, return
UnsubscribeRemove(t) ==
    /\ BusFrame(t).pc = "locked" /\ BusFrame(t).op = "unsubscribe"
    /\ LET ty == BusFrame(t).type
           h  == BusFrame(t).handler
       IN  bus' = [bus EXCEPT
                     !.subs = SubsRemove(@, ty, h),
                     !.members[ty] = SelectSeq(@, LAMBDA x : x /= h),
                     !.gone = @ \cup {<<ty, h>>},
                     !.lock = "free",
                     !.thread[t] = NoFrame]
    /\ OnlyBus

\* publish: copy the list of handlers under the lock, release
PublishSnapshot(t) ==
    /\ BusFrame(t).pc = "locked" /\ BusFrame(t).op = "publish"
    /\ bus' = [bus EXCEPT
                 !.lock = "free",
                 !.thread[t] = [@ EXCEPT !.pc = "invoke",
                                         !.handlers = SubsGet(bus.subs, BusFrame(t).type),
                                         !.expected = bus.members[BusFrame(t).type]]]
    /\ OnlyBus

\* publish: one turn of "for h in handlers: try: h(event) except Exception: continue"
HandlerCall(t) ==
    /\ BusFrame(t).pc = "invoke"
    /\ BusFrame(t).handlers /= <<>>
    /\ \E outcome \in Outcomes :
         bus' = [bus EXCEPT
                   !.thread[t] =
                       IF outcome = "SystemExit"
                       THEN [@ EXCEPT !.called = Append(@, Head(BusFrame(t).handlers)),
                                      !.pc = "finished", !.result = "raised"]
                       ELSE [@ EXCEPT !.called = Append(@, Head(BusFrame(t).handlers)),
                                      !.handlers = Tail(@)]]
    /\ OnlyBus

\* publish: the loop is over
LoopEnds(t) ==
    /\ BusFrame(t).pc = "invoke"
    /\ BusFrame(t).handlers = <<>>
    /\ bus' = [bus EXCEPT !.thread[t].pc = "finished", !.thread[t].result = "returned"]
    /\ OnlyBus

\* publish has returned or raised; the thread is free for its next call
PublishReturn(t) ==
    /\ BusFrame(t).pc = "finished"
    /\ bus' = [bus EXCEPT !.thread[t] = NoFrame]
    /\ OnlyBus

NextBus ==
    \E t \in Threads :
        \/ SubscribeCall(t)
        \/ UnsubscribeCall(t)
        \/ PublishCall(t)
        \/ Acquire(t)
        \/ SubscribeAppend(t)
        \/ UnsubscribeRemove(t)
        \/ PublishSnapshot(t)
        \/ HandlerCall(t)
        \/ LoopEnds(t)
        \/ PublishReturn(t)

SpecBus == InitBus /\ [][NextBus]_vars

IsPrefixOf(s, t) == Len(s) <= Len(t) /\ SubSeq(t, 1, Len(s)) = s

\* C30: a publish calls the handlers subscribed for exactly the type of its
\* event at the moment it reads the subscriptions, each once and in the order
\* they subscribed, whatever the other threads do meanwhile and whatever the
\* handlers called before raise; it calls no handler whose unsubscribe for
\* that type had returned before the publish was called.
C30_ExactlyOnceDelivery ==
    \A t \in Threads :
        BusFrame(t).op = "publish" =>
            /\ IsPrefixOf(BusFrame(t).called, BusFrame(t).expected)
            /\ BusFrame(t).pc = "finished" => BusFrame(t).called = BusFrame(t).expected
            /\ \A i \in 1..Len(BusFrame(t).called) : BusFrame(t).called[i] \notin BusFrame(t).barred

====
